---- MODULE Spec2Model ----
(***************************************************************************)
(* Model of cargo-vet's store-and-cache core (src/src/storage.rs).         *)
(*                                                                         *)
(* Spec       the package Cache as a set of concurrent tasks sharing a     *)
(*            CacheState behind a mutex: fetch_package,                    *)
(*            fetch_and_diffstat_package, clean, get_publishers.           *)
(* SpecLock   processes creating, acquiring, committing and dropping       *)
(*            Stores and Caches under the exclusive file locks on          *)
(*            config.toml and .vet-lock, and the steps of Store::acquire.  *)
(* SpecRecon  process_imported_audits applied to bounded fetched audits,   *)
(*            import configs and prior imports-locks, and applied again    *)
(*            to its own result.                                           *)
(* SpecStore  one Store with its contents: validate, clone_for_suggest     *)
(*            and commit on loaded documents.                              *)
(* SpecPublishers  get_publishers on the contents of the publisher cache,  *)
(*            the registry index and the registry's response.              *)
(***************************************************************************)
EXTENDS Integers, Sequences, FiniteSets, TLC

(***************************************************************************)
(* Bounds and program constants                                            *)
(***************************************************************************)
\* Number of calls made on one Cache (each task makes one call).
NumTasks == 2

\* const MAX_CONCURRENT_DIFFS: usize = 40;
MAX_CONCURRENT_DIFFS == 40

Tasks == 1..NumTasks
NoTask == 0

\* (package, version) keys: one registry version and one version with a
\* git revision (VetVersion.git_rev is Some).
Keys == {"reg", "git"}
IsGit(k) == k = "git"

\* Deltas of the package: "d0" is {from: None, to: reg}, "d1" is
\* {from: reg, to: git}.
Deltas == {"d0", "d1"}
NoVersion == "none"
DeltaFrom(d) == IF d = "d0" THEN NoVersion ELSE "reg"
DeltaTo(d) == IF d = "d0" THEN "reg" ELSE "git"

\* The DiffStat values git diff can report for a pair of directories.
DiffStats == {"stat_a", "stat_b"}

\* An empty OnceCell / an absent cached value.
Unset == "unset"

\* The two directories fetch_package can return for a key: the unpack in the
\* host cargo registry (reg.src()/<pkg>-<ver>) or the one in the cache
\* (<root>/src/<pkg>-<ver>[.git.<rev>]).
RegistryPath == "registry_src"
CachePath == "cache_src"

VARIABLES
    mutex,            \* Cache.state: the task holding the std Mutex, or NoTask
    fetched_packages, \* CacheState.fetched_packages: key -> cell (present: the map has the entry)
    diffed,           \* CacheState.diffed: delta -> cell
    diff_cache,       \* CacheState.diff_cache: delta -> Unset | DiffStat
    publisher_cache,  \* CacheState.publisher_cache has an entry for the crate
    diff_semaphore,   \* Cache.diff_semaphore: free permits
    src_dir,          \* <root>/src/<key>: "absent" | "partial" | "ok" (.cargo-ok = "ok")
    crate_file,       \* <root>/cache/<key>.crate exists
    registry_src,     \* the host registry holds a validly marked unpack of key
    network,          \* the process has a Network (Option<&Network> is Some)
    tasks,            \* per task: the call it makes and where it is in it
    src0,             \* history: src_dir when the Cache was acquired
    fetch_runs,       \* history: runs of the fetch-and-unpack initializer per key
    fetch_failed,     \* history: those runs that ended with an error
    unpacks,          \* history: unpack_package / unpack_checkout executions per key
    diff_runs,        \* history: git diff invocations per delta
    cleaned           \* history: clean() has been called on this Cache

cacheVars == <<mutex, fetched_packages, diffed, diff_cache, publisher_cache,
               diff_semaphore, src_dir, crate_file, registry_src, network, tasks,
               src0, fetch_runs, fetch_failed, unpacks, diff_runs, cleaned>>

\* Number of cargo-vet processes working on one store root and one cache root.
NumProcs == 2
Procs == 1..NumProcs
NoProc == 0

VARIABLES
    config_lock,      \* the process holding the exclusive lock on <store>/config.toml, or NoProc
    vet_lock,         \* the process holding the exclusive lock on <cache>/.vet-lock, or NoProc
    procs             \* per process: where it is, whether it owns a Store with lock: Some(..),
                      \* a clone_for_suggest copy, and a Cache ("none" | "mock" | "locked")

lockVars == <<config_lock, vet_lock, procs>>

VARIABLES
    fetched_audits,         \* process_imported_audits: Vec<(ImportName, AuditsFile)>
    config_file,            \* process_imported_audits: &ConfigFile (its imports)
    imports_lock,           \* process_imported_audits: &ImportsFile (the prior lock)
    allow_criteria_changes, \* process_imported_audits: bool
    rpc,                    \* "idle" | "fetched" | "once" | "twice"
    result1,                \* what process_imported_audits returned
    result2                 \* what it returned when run again on result1

reconVars == <<fetched_audits, config_file, imports_lock, allow_criteria_changes,
               rpc, result1, result2>>

VARIABLES
    store,        \* the Store: lock (Some = TRUE), config, audits, imports,
                  \* live_imports, config_src, audits_src, imports_src
    clone,        \* the Store returned by clone_for_suggest, or NoStore
    disk,         \* text of config.toml, audits.toml, imports.lock in the store root
    store_lock,   \* "held" | "free": the exclusive lock on <store>/config.toml
    validated,    \* NotValidated, or the arguments and result of validate
    commit_pc     \* which Store is in commit() and how far it got

storeVars == <<store, clone, disk, store_lock, validated, commit_pc>>

VARIABLES
    pub_cache,    \* CacheState.publisher_cache with its contents: crates, users
    pub_call      \* one call of get_publishers: arguments, position, result

pubVars == <<pub_cache, pub_call>>

VARIABLES
    resolver      \* one call of import_publisher_versions: arguments, position,
                  \* the calls it made to the cache, live_imports, result

\* The components added for the publisher resolver, the cache directory,
\* unpacking and diffstat; each is one variable.
VARIABLES
    cache_root,   \* the cache directory: its children, and the entries of
                  \* empty/, cache/ and src/
    cache_state,  \* the Cache: alive, mock (no root, no paths), the three
                  \* documents of CacheState, what happened since clean
    cache_call    \* the call of gc or clean in progress, or the last result

dirVars == <<cache_root, cache_state, cache_call>>

VARIABLES
    pkg_files,    \* what one package version has on disk: the cached .crate,
                  \* its directory in src/, the host registry's marker, and
                  \* the paths written outside the directory
    pkg_call      \* one run of fetch_package's initializer: arguments,
                  \* position, result

unpackVars == <<pkg_files, pkg_call>>

\* One call of Cache::diffstat_package: its arguments, what git printed,
\* and its result.
VARIABLES diff_call

\* Dropped fetch_package callers: for each key the initializer runs that a
\* drop cancelled while another caller was pending and those it abandoned
\* with none left, and the keys with an unpack_package still running on the
\* blocking pool after its caller was dropped.
VARIABLES drops

\* One call of foreign_audit_file_to_local: the foreign document and the
\* result; and one call of Cache::acquire on a cache root: the files found
\* there, the step the call is at and what it returned.
\* The once-cell of one key over the calls of fetch_package on one Cache.
VARIABLES foreign, cache_load, refetch

lateVars == <<foreign, cache_load, refetch>>

moreVars == <<resolver, dirVars, unpackVars, diff_call, drops, lateVars>>

\* What the Cache's methods leave alone.
restVars == <<lockVars, reconVars, storeVars, pubVars, moreVars>>

vars == <<cacheVars, lockVars, reconVars, storeVars, pubVars, moreVars>>

\* The value of the variables of a component that a specification does not
\* exercise and never reads.
NotInUse == <<>>


(***************************************************************************)
(* tokio::sync::OnceCell as used by get_or_try_init: a value, and the one   *)
(* permit that the task running the initializer holds.                     *)
(***************************************************************************)
NoCell == [present |-> FALSE, value |-> Unset, runner |-> NoTask]
EmptyCell == [present |-> TRUE, value |-> Unset, runner |-> NoTask]

NoResult == [st |-> "none", v |-> "none"]
Ok(v) == [st |-> "ok", v |-> v]
Err(e) == [st |-> "err", v |-> e]

IdleTask == [op |-> "none", arg |-> "none", pc |-> "idle", key |-> "none",
             stage |-> "none", tmp |-> "none", res |-> NoResult]

CacheInit ==
    /\ mutex = NoTask
    /\ fetched_packages = [k \in Keys |-> NoCell]
    /\ diffed = [d \in Deltas |-> NoCell]
    /\ diff_cache = [d \in Deltas |-> Unset]
    /\ publisher_cache = FALSE
    /\ diff_semaphore = MAX_CONCURRENT_DIFFS
    /\ src_dir \in [Keys -> {"absent", "ok"}]
    /\ crate_file \in [Keys -> BOOLEAN]
    /\ registry_src \in [Keys -> BOOLEAN]
    /\ \A k \in Keys : IsGit(k) => ~registry_src[k] /\ ~crate_file[k]
    /\ network \in BOOLEAN
    /\ tasks = [t \in Tasks |-> IdleTask]
    /\ src0 = src_dir
    /\ fetch_runs = [k \in Keys |-> 0]
    /\ fetch_failed = [k \in Keys |-> 0]
    /\ unpacks = [k \in Keys |-> 0]
    /\ diff_runs = [d \in Deltas |-> 0]
    /\ cleaned = FALSE


(***************************************************************************)
(* Starting a call.  Each task makes one call on the Cache.                *)
(***************************************************************************)
Start(t, op, arg, pc) ==
    tasks' = [tasks EXCEPT ![t] = [IdleTask EXCEPT !.op = op, !.arg = arg,
                                    !.key = IF op = "fetch" THEN arg ELSE "none",
                                    !.pc = pc]]

CallFetch(t) ==
    /\ tasks[t].pc = "idle"
    /\ \E k \in Keys : Start(t, "fetch", k, "f_lock")
    /\ UNCHANGED <<mutex, fetched_packages, diffed, diff_cache, publisher_cache,
                   diff_semaphore, src_dir, crate_file, registry_src, network, src0, restVars,
                   fetch_runs, fetch_failed, unpacks, diff_runs, cleaned>>

CallDiff(t) ==
    /\ tasks[t].pc = "idle"
    /\ \E d \in Deltas : Start(t, "diff", d, "d_lock")
    /\ UNCHANGED <<mutex, fetched_packages, diffed, diff_cache, publisher_cache,
                   diff_semaphore, src_dir, crate_file, registry_src, network, src0, restVars,
                   fetch_runs, fetch_failed, unpacks, diff_runs, cleaned>>

CallClean(t) ==
    /\ tasks[t].pc = "idle"
    /\ Start(t, "clean", "none", "c_lock")
    /\ cleaned' = TRUE
    /\ UNCHANGED <<mutex, fetched_packages, diffed, diff_cache, publisher_cache,
                   diff_semaphore, src_dir, crate_file, registry_src, network, src0, restVars,
                   fetch_runs, fetch_failed, unpacks, diff_runs>>

CallPublishers(t) ==
    /\ tasks[t].pc = "idle"
    /\ Start(t, "pub", "none", "p_lock")
    /\ UNCHANGED <<mutex, fetched_packages, diffed, diff_cache, publisher_cache,
                   diff_semaphore, src_dir, crate_file, registry_src, network, src0, restVars,
                   fetch_runs, fetch_failed, unpacks, diff_runs, cleaned>>

(***************************************************************************)
(* Cache::fetch_package                                                    *)
(***************************************************************************)
\* The call of task t returns r to its caller: either the task itself called
\* fetch_package, or the call was made by the initializer of
\* fetch_and_diffstat_package (`?` propagates an error out of the
\* initializer, which leaves the diffed cell empty and frees its permit).
FetchReturns(t, r) ==
    LET me == tasks[t] IN
    IF me.op = "fetch"
    THEN /\ tasks' = [tasks EXCEPT ![t] = [me EXCEPT !.pc = "done", !.res = r]]
         /\ UNCHANGED diffed
    ELSE IF r.st = "err"
    THEN /\ tasks' = [tasks EXCEPT ![t] = [me EXCEPT !.pc = "done", !.res = r]]
         /\ diffed' = [diffed EXCEPT ![me.arg].runner = NoTask]
    ELSE IF me.stage = "from"
    THEN /\ tasks' = [tasks EXCEPT ![t] = [me EXCEPT !.pc = "f_lock",
                                   !.key = DeltaTo(me.arg), !.stage = "to"]]
         /\ UNCHANGED diffed
    ELSE /\ tasks' = [tasks EXCEPT ![t] = [me EXCEPT !.pc = "d_sem",
                                   !.key = "none", !.stage = "none"]]
         /\ UNCHANGED diffed

\* get_or_try_init's initializer finished with r: Ok sets the cell, Err
\* leaves it empty; either way the permit is given up.
InitDone(t, k, r) ==
    /\ fetched_packages' =
         [fetched_packages EXCEPT
            ![k] = [@ EXCEPT !.value = IF r.st = "ok" THEN r.v ELSE @,
                             !.runner = NoTask]]
    /\ fetch_failed' = [fetch_failed EXCEPT ![k] = IF r.st = "err" THEN @ + 1 ELSE @]
    /\ FetchReturns(t, r)

Goto(t, pc) == tasks' = [tasks EXCEPT ![t].pc = pc]

\* let mut guard = self.state.lock().unwrap();
FetchLock(t) ==
    /\ tasks[t].pc = "f_lock"
    /\ mutex = NoTask
    /\ mutex' = t
    /\ Goto(t, "f_cell")
    /\ UNCHANGED <<fetched_packages, diffed, diff_cache, publisher_cache,
                   diff_semaphore, src_dir, crate_file, registry_src, network, src0, restVars,
                   fetch_runs, fetch_failed, unpacks, diff_runs, cleaned>>

\* Mutant: the guard is kept alive while the once-cell is awaited.
FetchCell_KeepGuard(t) ==
    /\ tasks[t].pc = "f_cell"
    /\ mutex = t
    /\ fetched_packages' = [fetched_packages EXCEPT ![tasks[t].key].present = TRUE]
    /\ Goto(t, "f_await")
    /\ UNCHANGED <<mutex, diffed, diff_cache, publisher_cache,
                   diff_semaphore, src_dir, crate_file, registry_src, network, src0, restVars,
                   fetch_runs, fetch_failed, unpacks, diff_runs, cleaned>>

\* guard.fetched_packages.entry(key).or_default().clone(); the guard is
\* dropped at the end of the block.
FetchCell(t) ==
    /\ tasks[t].pc = "f_cell"
    /\ mutex = t
    /\ fetched_packages' = [fetched_packages EXCEPT ![tasks[t].key].present = TRUE]
    /\ mutex' = NoTask
    /\ Goto(t, "f_await")
    /\ UNCHANGED <<diffed, diff_cache, publisher_cache,
                   diff_semaphore, src_dir, crate_file, registry_src, network, src0, restVars,
                   fetch_runs, fetch_failed, unpacks, diff_runs, cleaned>>

\* Mutant: a set cell is ignored and the caller waits to initialize again.
FetchCached_Refetch(t) ==
    LET k == tasks[t].key IN
    /\ tasks[t].pc = "f_await"
    /\ fetched_packages[k].value # Unset
    /\ fetched_packages[k].runner = NoTask
    /\ fetched_packages' = [fetched_packages EXCEPT ![k].runner = t]
    /\ fetch_runs' = [fetch_runs EXCEPT ![k] = @ + 1]
    /\ Goto(t, "f_init")
    /\ UNCHANGED <<mutex, diffed, diff_cache, publisher_cache,
                   diff_semaphore, src_dir, crate_file, registry_src, network, src0, restVars,
                   fetch_failed, unpacks, diff_runs, cleaned>>

\* once_cell.get_or_try_init(..).await when the cell already holds a path.
FetchCached(t) ==
    /\ tasks[t].pc = "f_await"
    /\ fetched_packages[tasks[t].key].value # Unset
    /\ FetchReturns(t, Ok(fetched_packages[tasks[t].key].value))
    /\ UNCHANGED <<mutex, fetched_packages, diff_cache, publisher_cache,
                   diff_semaphore, src_dir, crate_file, registry_src, network, src0, restVars,
                   fetch_runs, fetch_failed, unpacks, diff_runs, cleaned>>

\* Mutant: the initializer starts although another task is running it.
FetchBecomeRunner_NoCoalesce(t) ==
    LET k == tasks[t].key IN
    /\ tasks[t].pc = "f_await"
    /\ fetched_packages[k].value = Unset
    /\ fetched_packages' = [fetched_packages EXCEPT ![k].runner = t]
    /\ fetch_runs' = [fetch_runs EXCEPT ![k] = @ + 1]
    /\ Goto(t, "f_init")
    /\ UNCHANGED <<mutex, diffed, diff_cache, publisher_cache,
                   diff_semaphore, src_dir, crate_file, registry_src, network, src0, restVars,
                   fetch_failed, unpacks, diff_runs, cleaned>>

\* once_cell.get_or_try_init(..).await when the cell is empty and no other
\* task runs the initializer: this task runs it.
FetchBecomeRunner(t) ==
    LET k == tasks[t].key IN
    /\ tasks[t].pc = "f_await"
    /\ fetched_packages[k].value = Unset
    /\ fetched_packages[k].runner = NoTask
    /\ fetched_packages' = [fetched_packages EXCEPT ![k].runner = t]
    /\ fetch_runs' = [fetch_runs EXCEPT ![k] = @ + 1]
    /\ Goto(t, "f_init")
    /\ UNCHANGED <<mutex, diffed, diff_cache, publisher_cache,
                   diff_semaphore, src_dir, crate_file, registry_src, network, src0, restVars,
                   fetch_failed, unpacks, diff_runs, cleaned>>

\* The initializer for a version with a git revision, up to unpack_checkout.
FetchInitGit(t) ==
    LET k == tasks[t].key IN
    /\ tasks[t].pc = "f_init"
    /\ IsGit(k)
    /\ IF src_dir[k] = "ok"
       THEN InitDone(t, k, Ok(CachePath))
       ELSE \E known \in BOOLEAN :
              IF known
              THEN Goto(t, "f_unpack") /\ UNCHANGED <<fetched_packages, diffed, fetch_failed>>
              ELSE InitDone(t, k, Err("UnknownGitRevision"))
    /\ UNCHANGED <<mutex, diff_cache, publisher_cache,
                   diff_semaphore, src_dir, crate_file, registry_src, network, src0, restVars,
                   fetch_runs, unpacks, diff_runs, cleaned>>

\* The initializer for a registry version, up to the download.
FetchInitRegistry(t) ==
    LET k == tasks[t].key IN
    /\ tasks[t].pc = "f_init"
    /\ ~IsGit(k)
    /\ IF registry_src[k]
       THEN InitDone(t, k, Ok(RegistryPath))
       ELSE IF crate_file[k]
       THEN Goto(t, "f_check") /\ UNCHANGED <<fetched_packages, diffed, fetch_failed>>
       ELSE IF ~network
       THEN InitDone(t, k, Err("Frozen"))
       ELSE Goto(t, "f_download") /\ UNCHANGED <<fetched_packages, diffed, fetch_failed>>
    /\ UNCHANGED <<mutex, diff_cache, publisher_cache,
                   diff_semaphore, src_dir, crate_file, registry_src, network, src0, restVars,
                   fetch_runs, unpacks, diff_runs, cleaned>>

\* network.download_and_persist(url, &fetched_package).await?, then File::open.
FetchDownload(t) ==
    LET k == tasks[t].key IN
    /\ tasks[t].pc = "f_download"
    /\ \/ /\ crate_file' = [crate_file EXCEPT ![k] = TRUE]
          /\ Goto(t, "f_check")
          /\ UNCHANGED <<fetched_packages, diffed, fetch_failed>>
       \/ /\ InitDone(t, k, Err("Download"))
          /\ UNCHANGED crate_file
    /\ UNCHANGED <<mutex, diff_cache, publisher_cache,
                   diff_semaphore, src_dir, registry_src, network, src0, restVars,
                   fetch_runs, unpacks, diff_runs, cleaned>>

\* if fetch_is_ok(&fetched_src).await { Ok(fetched_src) } else { unpack }
FetchCheck(t) ==
    LET k == tasks[t].key IN
    /\ tasks[t].pc = "f_check"
    /\ IF src_dir[k] = "ok"
       THEN InitDone(t, k, Ok(CachePath))
       ELSE Goto(t, "f_unpack") /\ UNCHANGED <<fetched_packages, diffed, fetch_failed>>
    /\ UNCHANGED <<mutex, diff_cache, publisher_cache,
                   diff_semaphore, src_dir, crate_file, registry_src, network, src0, restVars,
                   fetch_runs, unpacks, diff_runs, cleaned>>

\* unpack_package (on the blocking pool) or unpack_checkout: on success the
\* directory is complete and carries the .cargo-ok marker; on failure the
\* directory is left as it was or partially written, without a valid marker.
FetchUnpack(t) ==
    LET k == tasks[t].key IN
    /\ tasks[t].pc = "f_unpack"
    /\ unpacks' = [unpacks EXCEPT ![k] = @ + 1]
    /\ \/ /\ src_dir' = [src_dir EXCEPT ![k] = "ok"]
          /\ InitDone(t, k, Ok(CachePath))
       \/ /\ \E s \in {"absent", "partial"} : src_dir' = [src_dir EXCEPT ![k] = s]
          /\ InitDone(t, k, Err("Unpack"))
    /\ UNCHANGED <<mutex, diff_cache, publisher_cache,
                   diff_semaphore, crate_file, registry_src, network, src0, restVars,
                   fetch_runs, diff_runs, cleaned>>

(***************************************************************************)
(* Cache::fetch_and_diffstat_package (on a Cache with a root directory)    *)
(***************************************************************************)
Finish(t, r) == tasks' = [tasks EXCEPT ![t].pc = "done", ![t].res = r]

\* let mut guard = self.state.lock().unwrap();
DiffLock(t) ==
    /\ tasks[t].pc = "d_lock"
    /\ mutex = NoTask
    /\ mutex' = t
    /\ Goto(t, "d_cell")
    /\ UNCHANGED <<fetched_packages, diffed, diff_cache, publisher_cache,
                   diff_semaphore, src_dir, crate_file, registry_src, network, src0, restVars,
                   fetch_runs, fetch_failed, unpacks, diff_runs, cleaned>>

\* The diff-cache already has the delta: return Ok(cached), dropping the guard.
DiffCacheHit(t) ==
    /\ tasks[t].pc = "d_cell"
    /\ mutex = t
    /\ diff_cache[tasks[t].arg] # Unset
    /\ mutex' = NoTask
    /\ Finish(t, Ok(diff_cache[tasks[t].arg]))
    /\ UNCHANGED <<fetched_packages, diffed, diff_cache, publisher_cache,
                   diff_semaphore, src_dir, crate_file, registry_src, network, src0, restVars,
                   fetch_runs, fetch_failed, unpacks, diff_runs, cleaned>>

\* guard.diffed.entry((package, delta)).or_default().clone(); guard dropped.
DiffCell(t) ==
    /\ tasks[t].pc = "d_cell"
    /\ mutex = t
    /\ diff_cache[tasks[t].arg] = Unset
    /\ diffed' = [diffed EXCEPT ![tasks[t].arg].present = TRUE]
    /\ mutex' = NoTask
    /\ Goto(t, "d_await")
    /\ UNCHANGED <<fetched_packages, diff_cache, publisher_cache,
                   diff_semaphore, src_dir, crate_file, registry_src, network, src0, restVars,
                   fetch_runs, fetch_failed, unpacks, diff_runs, cleaned>>

\* once_cell.get_or_try_init(..).await when the cell already holds a DiffStat.
DiffCached(t) ==
    /\ tasks[t].pc = "d_await"
    /\ diffed[tasks[t].arg].value # Unset
    /\ Finish(t, Ok(diffed[tasks[t].arg].value))
    /\ UNCHANGED <<mutex, fetched_packages, diffed, diff_cache, publisher_cache,
                   diff_semaphore, src_dir, crate_file, registry_src, network, src0, restVars,
                   fetch_runs, fetch_failed, unpacks, diff_runs, cleaned>>

\* Mutant: the diff initializer starts although another task is running it.
DiffBecomeRunner_NoCoalesce(t) ==
    LET d == tasks[t].arg IN
    /\ tasks[t].pc = "d_await"
    /\ diffed[d].value = Unset
    /\ diffed' = [diffed EXCEPT ![d].runner = t]
    /\ tasks' = [tasks EXCEPT ![t].pc = "f_lock",
                              ![t].key = IF DeltaFrom(d) = NoVersion
                                         THEN DeltaTo(d) ELSE DeltaFrom(d),
                              ![t].stage = IF DeltaFrom(d) = NoVersion
                                           THEN "to" ELSE "from"]
    /\ UNCHANGED <<mutex, fetched_packages, diff_cache, publisher_cache,
                   diff_semaphore, src_dir, crate_file, registry_src, network, src0, restVars,
                   fetch_runs, fetch_failed, unpacks, diff_runs, cleaned>>

\* This task runs the initializer: it fetches delta.from if there is one
\* (else the empty package stands in) and then delta.to.
DiffBecomeRunner(t) ==
    LET d == tasks[t].arg IN
    /\ tasks[t].pc = "d_await"
    /\ diffed[d].value = Unset
    /\ diffed[d].runner = NoTask
    /\ diffed' = [diffed EXCEPT ![d].runner = t]
    /\ tasks' = [tasks EXCEPT ![t].pc = "f_lock",
                              ![t].key = IF DeltaFrom(d) = NoVersion
                                         THEN DeltaTo(d) ELSE DeltaFrom(d),
                              ![t].stage = IF DeltaFrom(d) = NoVersion
                                           THEN "to" ELSE "from"]
    /\ UNCHANGED <<mutex, fetched_packages, diff_cache, publisher_cache,
                   diff_semaphore, src_dir, crate_file, registry_src, network, src0, restVars,
                   fetch_runs, fetch_failed, unpacks, diff_runs, cleaned>>

\* diffstat_package: self.diff_semaphore.acquire().await
DiffAcquirePermit(t) ==
    /\ tasks[t].pc = "d_sem"
    /\ diff_semaphore > 0
    /\ diff_semaphore' = diff_semaphore - 1
    /\ Goto(t, "d_diff")
    /\ UNCHANGED <<mutex, fetched_packages, diffed, diff_cache, publisher_cache,
                   src_dir, crate_file, registry_src, network, src0, restVars,
                   fetch_runs, fetch_failed, unpacks, diff_runs, cleaned>>

\* diffstat_package: the git diff process runs; exit status 0 or 1 gives a
\* DiffStat, anything else (or unparseable output) is an error.  The permit
\* is dropped when diffstat_package returns.
DiffRun(t) ==
    LET d == tasks[t].arg IN
    /\ tasks[t].pc = "d_diff"
    /\ diff_runs' = [diff_runs EXCEPT ![d] = @ + 1]
    /\ diff_semaphore' = diff_semaphore + 1
    /\ \/ /\ \E s \in DiffStats :
               tasks' = [tasks EXCEPT ![t].pc = "d_rec_lock", ![t].tmp = s]
          /\ UNCHANGED diffed
       \/ /\ Finish(t, Err("Diff"))
          /\ diffed' = [diffed EXCEPT ![d].runner = NoTask]
    /\ UNCHANGED <<mutex, fetched_packages, diff_cache, publisher_cache,
                   src_dir, crate_file, registry_src, network, src0, restVars,
                   fetch_runs, fetch_failed, unpacks, cleaned>>

\* let mut guard = self.state.lock().unwrap();   (record the result)
DiffRecordLock(t) ==
    /\ tasks[t].pc = "d_rec_lock"
    /\ mutex = NoTask
    /\ mutex' = t
    /\ Goto(t, "d_record")
    /\ UNCHANGED <<fetched_packages, diffed, diff_cache, publisher_cache,
                   diff_semaphore, src_dir, crate_file, registry_src, network, src0, restVars,
                   fetch_runs, fetch_failed, unpacks, diff_runs, cleaned>>

\* diffs.entry(package).or_default().insert(delta, diffstat); the guard is
\* dropped, the initializer returns Ok(diffstat) and the cell is set.
DiffRecord(t) ==
    LET d == tasks[t].arg IN
    /\ tasks[t].pc = "d_record"
    /\ mutex = t
    /\ diff_cache' = [diff_cache EXCEPT ![d] = tasks[t].tmp]
    /\ mutex' = NoTask
    /\ diffed' = [diffed EXCEPT ![d].value = tasks[t].tmp, ![d].runner = NoTask]
    /\ Finish(t, Ok(tasks[t].tmp))
    /\ UNCHANGED <<fetched_packages, publisher_cache,
                   diff_semaphore, src_dir, crate_file, registry_src, network, src0, restVars,
                   fetch_runs, fetch_failed, unpacks, diff_runs, cleaned>>

(***************************************************************************)
(* Cache::clean                                                            *)
(***************************************************************************)
CleanLock(t) ==
    /\ tasks[t].pc = "c_lock"
    /\ mutex = NoTask
    /\ mutex' = t
    /\ Goto(t, "c_reset")
    /\ UNCHANGED <<fetched_packages, diffed, diff_cache, publisher_cache,
                   diff_semaphore, src_dir, crate_file, registry_src, network, src0, restVars,
                   fetch_runs, fetch_failed, unpacks, diff_runs, cleaned>>

\* The three documents are reset to their defaults; the guard is dropped
\* before the directory is read.
CleanReset(t) ==
    /\ tasks[t].pc = "c_reset"
    /\ mutex = t
    /\ diff_cache' = [d \in Deltas |-> Unset]
    /\ publisher_cache' = FALSE
    /\ mutex' = NoTask
    /\ tasks' = [tasks EXCEPT ![t].pc = "c_remove", ![t].stage = "src+cache"]
    /\ UNCHANGED <<fetched_packages, diffed,
                   diff_semaphore, src_dir, crate_file, registry_src, network, src0, restVars,
                   fetch_runs, fetch_failed, unpacks, diff_runs, cleaned>>

CleanNext(t, left) ==
    tasks' = [tasks EXCEPT ![t].pc = IF left = "none" THEN "done" ELSE "c_remove",
                           ![t].stage = left,
                           ![t].res = IF left = "none" THEN Ok("cleaned") ELSE @]

\* remove_dir_entry(<root>/src).await
CleanRemoveSrc(t) ==
    /\ tasks[t].pc = "c_remove"
    /\ tasks[t].stage \in {"src+cache", "src"}
    /\ src_dir' = [k \in Keys |-> "absent"]
    /\ CleanNext(t, IF tasks[t].stage = "src" THEN "none" ELSE "cache")
    /\ UNCHANGED <<mutex, fetched_packages, diffed, diff_cache, publisher_cache,
                   diff_semaphore, crate_file, registry_src, network, src0, restVars,
                   fetch_runs, fetch_failed, unpacks, diff_runs, cleaned>>

\* remove_dir_entry(<root>/cache).await
CleanRemoveCache(t) ==
    /\ tasks[t].pc = "c_remove"
    /\ tasks[t].stage \in {"src+cache", "cache"}
    /\ crate_file' = [k \in Keys |-> FALSE]
    /\ CleanNext(t, IF tasks[t].stage = "cache" THEN "none" ELSE "src")
    /\ UNCHANGED <<mutex, fetched_packages, diffed, diff_cache, publisher_cache,
                   diff_semaphore, src_dir, registry_src, network, src0, restVars,
                   fetch_runs, fetch_failed, unpacks, diff_runs, cleaned>>

(***************************************************************************)
(* Cache::get_publishers                                                   *)
(***************************************************************************)
PublishersLock(t) ==
    /\ tasks[t].pc = "p_lock"
    /\ mutex = NoTask
    /\ mutex' = t
    /\ Goto(t, "p_check")
    /\ UNCHANGED <<fetched_packages, diffed, diff_cache, publisher_cache,
                   diff_semaphore, src_dir, crate_file, registry_src, network, src0, restVars,
                   fetch_runs, fetch_failed, unpacks, diff_runs, cleaned>>

\* The first block: with a cache entry that covers the wanted versions (or
\* that is recent while the index has none of the missing ones) the cached
\* list is returned; otherwise the guard is dropped at the end of the block.
PublishersCheck(t) ==
    /\ tasks[t].pc = "p_check"
    /\ mutex = t
    /\ mutex' = NoTask
    /\ \E covered \in BOOLEAN :
         IF publisher_cache /\ covered
         THEN Finish(t, Ok("cached"))
         ELSE Goto(t, "p_http")
    /\ UNCHANGED <<fetched_packages, diffed, diff_cache, publisher_cache,
                   diff_semaphore, src_dir, crate_file, registry_src, network, src0, restVars,
                   fetch_runs, fetch_failed, unpacks, diff_runs, cleaned>>

\* block_on(network.download(url))? and load_json(..)?
PublishersHttp(t) ==
    /\ tasks[t].pc = "p_http"
    /\ \/ Goto(t, "p_lock2")
       \/ Finish(t, Err("Download"))
    /\ UNCHANGED <<mutex, fetched_packages, diffed, diff_cache, publisher_cache,
                   diff_semaphore, src_dir, crate_file, registry_src, network, src0, restVars,
                   fetch_runs, fetch_failed, unpacks, diff_runs, cleaned>>

\* let mut guard = self.state.lock().unwrap();   (update the caches)
PublishersLock2(t) ==
    /\ tasks[t].pc = "p_lock2"
    /\ mutex = NoTask
    /\ mutex' = t
    /\ Goto(t, "p_update")
    /\ UNCHANGED <<fetched_packages, diffed, diff_cache, publisher_cache,
                   diff_semaphore, src_dir, crate_file, registry_src, network, src0, restVars,
                   fetch_runs, fetch_failed, unpacks, diff_runs, cleaned>>

\* guard.publisher_cache.crates.insert(..); Ok(versions); guard dropped.
PublishersUpdate(t) ==
    /\ tasks[t].pc = "p_update"
    /\ mutex = t
    /\ publisher_cache' = TRUE
    /\ mutex' = NoTask
    /\ Finish(t, Ok("fetched"))
    /\ UNCHANGED <<fetched_packages, diffed, diff_cache,
                   diff_semaphore, src_dir, crate_file, registry_src, network, src0, restVars,
                   fetch_runs, fetch_failed, unpacks, diff_runs, cleaned>>

CacheNext ==
    \E t \in Tasks :
        \/ CallFetch(t) \/ CallDiff(t) \/ CallClean(t) \/ CallPublishers(t)
        \/ FetchLock(t) \/ FetchCell(t) \/ FetchCached(t) \/ FetchBecomeRunner(t)
        \/ FetchInitGit(t) \/ FetchInitRegistry(t) \/ FetchDownload(t)
        \/ FetchCheck(t) \/ FetchUnpack(t)
        \/ DiffLock(t) \/ DiffCacheHit(t) \/ DiffCell(t) \/ DiffCached(t)
        \/ DiffBecomeRunner(t) \/ DiffAcquirePermit(t) \/ DiffRun(t)
        \/ DiffRecordLock(t) \/ DiffRecord(t)
        \/ CleanLock(t) \/ CleanReset(t) \/ CleanRemoveSrc(t) \/ CleanRemoveCache(t)
        \/ PublishersLock(t) \/ PublishersCheck(t) \/ PublishersHttp(t)
        \/ PublishersLock2(t) \/ PublishersUpdate(t)


(***************************************************************************)
(* Dropping a pending fetch_package future (specification SpecDrop).  The  *)
(* initializer passed to get_or_try_init runs inside the future of the      *)
(* caller that holds the cell's permit: when that future is dropped the     *)
(* initializer is dropped with it at its current await and the permit is    *)
(* released; a closure already handed to spawn_blocking keeps running.      *)
(***************************************************************************)
DropInit ==
    drops = [cancelled |-> [k \in Keys |-> 0], abandoned |-> [k \in Keys |-> 0],
             detached |-> {}]

DropIdle == drops = NotInUse

\* The awaits of fetch_package (and the state before its first poll).
FetchAwaits == {"f_lock", "f_await", "f_init", "f_download", "f_check", "f_unpack"}

\* Task u has called fetch_package for key k and has not returned.
PendingOn(u, k) ==
    /\ tasks[u].op = "fetch"
    /\ tasks[u].key = k
    /\ tasks[u].pc \in FetchAwaits \cup {"f_cell"}

\* Mutant: the dropped caller's permit is not released.
DropCaller_KeepPermit(t) ==
    LET k == tasks[t].key
        running == fetched_packages[k].runner = t
        others == \E u \in Tasks \ {t} : PendingOn(u, k)
    IN /\ tasks[t].op = "fetch"
       /\ tasks[t].pc \in FetchAwaits
       /\ tasks' = [tasks EXCEPT ![t].pc = "dropped"]
       /\ UNCHANGED fetched_packages
       /\ drops' = [drops EXCEPT
              !.cancelled[k] = IF running /\ others THEN @ + 1 ELSE @,
              !.abandoned[k] = IF running /\ ~others THEN @ + 1 ELSE @,
              !.detached = IF tasks[t].pc = "f_unpack" /\ ~IsGit(k)
                           THEN @ \cup {k} ELSE @]
       /\ IF tasks[t].pc = "f_unpack" /\ IsGit(k)
          THEN \E s \in {src_dir[k], "partial"} : src_dir' = [src_dir EXCEPT ![k] = s]
          ELSE UNCHANGED src_dir
       /\ UNCHANGED <<mutex, diffed, diff_cache, publisher_cache, diff_semaphore,
                      crate_file, registry_src, network, src0, fetch_runs, fetch_failed,
                      unpacks, diff_runs, cleaned, lockVars, reconVars, storeVars,
                      pubVars, resolver, dirVars, unpackVars, diff_call, lateVars>>

\* The future of a pending fetch_package call is dropped at one of its
\* awaits.  A caller waiting for the permit just leaves; the caller running
\* the initializer takes the initializer with it: the cell stays empty and
\* its permit is free again.  An unpack_checkout in progress stops where it
\* is; an unpack_package on the blocking pool goes on without its caller.
DropCaller(t) ==
    LET k == tasks[t].key
        running == fetched_packages[k].runner = t
        others == \E u \in Tasks \ {t} : PendingOn(u, k)
    IN /\ tasks[t].op = "fetch"
       /\ tasks[t].pc \in FetchAwaits
       /\ tasks' = [tasks EXCEPT ![t].pc = "dropped"]
       /\ fetched_packages' = IF running
                              THEN [fetched_packages EXCEPT ![k].runner = NoTask]
                              ELSE fetched_packages
       /\ drops' = [drops EXCEPT
              !.cancelled[k] = IF running /\ others THEN @ + 1 ELSE @,
              !.abandoned[k] = IF running /\ ~others THEN @ + 1 ELSE @,
              !.detached = IF tasks[t].pc = "f_unpack" /\ ~IsGit(k)
                           THEN @ \cup {k} ELSE @]
       /\ IF tasks[t].pc = "f_unpack" /\ IsGit(k)
          THEN \E s \in {src_dir[k], "partial"} : src_dir' = [src_dir EXCEPT ![k] = s]
          ELSE UNCHANGED src_dir
       /\ UNCHANGED <<mutex, diffed, diff_cache, publisher_cache, diff_semaphore,
                      crate_file, registry_src, network, src0, fetch_runs, fetch_failed,
                      unpacks, diff_runs, cleaned, lockVars, reconVars, storeVars,
                      pubVars, resolver, dirVars, unpackVars, diff_call, lateVars>>

\* The unpack_package left on the blocking pool by a dropped caller comes to
\* its end, whatever another unpack of the same directory does meanwhile.
DetachedUnpack(k) ==
    /\ k \in drops.detached
    /\ drops' = [drops EXCEPT !.detached = @ \ {k}]
    /\ unpacks' = [unpacks EXCEPT ![k] = @ + 1]
    /\ \E s \in {"ok", "absent", "partial"} : src_dir' = [src_dir EXCEPT ![k] = s]
    /\ UNCHANGED <<mutex, fetched_packages, diffed, diff_cache, publisher_cache,
                   diff_semaphore, crate_file, registry_src, network, src0, tasks,
                   fetch_runs, fetch_failed, diff_runs, cleaned, lockVars, reconVars,
                   storeVars, pubVars, resolver, dirVars, unpackVars, diff_call, lateVars>>

DropNext ==
    \/ \E t \in Tasks :
         \/ CallFetch(t) \/ FetchLock(t) \/ FetchCell(t) \/ FetchCached(t)
         \/ FetchBecomeRunner(t) \/ FetchInitGit(t) \/ FetchInitRegistry(t)
         \/ FetchDownload(t) \/ FetchCheck(t) \/ FetchUnpack(t)
         \/ DropCaller(t)
    \/ \E k \in Keys : DetachedUnpack(k)
(***************************************************************************)
(* Store and Cache across processes: the exclusive file locks on            *)
(* <store>/config.toml and <cache>/.vet-lock (specification SpecLock)       *)
(***************************************************************************)
\* A process: where it is; whether it owns a Store with lock: Some(..), a
\* clone_for_suggest copy (and whether the copy has live imports), a Cache;
\* of its Store::acquire: cfg.cli.locked, whether a network was given, the
\* steps taken so far, whether live_imports is Some, and whether validate
\* returned Ok; and the Store its ensure_publisher_versions runs on.
IdleProc == [pc |-> "idle", store |-> FALSE, clone |-> FALSE, cache |-> "none",
             locked |-> FALSE, network |-> FALSE, acquire |-> <<>>,
             live_imports |-> FALSE, valid |-> FALSE, clone_live |-> FALSE,
             ensure |-> "none"]

\* The Store of a process is dropped (by `?`, by commit, or by its owner).
DropStore(proc) == [IdleProc EXCEPT !.clone = proc.clone, !.clone_live = proc.clone_live, !.cache = proc.cache]

LockInit ==
    /\ config_lock = NoProc
    /\ vet_lock = NoProc
    /\ procs = [p \in Procs |-> IdleProc]

\* Filesystem::open_rw returns once no other handle holds the exclusive lock
\* on the file; the lock lives as long as the returned FileLock.
OpenRwGranted(holder) == holder = NoProc

\* A FileLock held by p is dropped.
Unlocked(holder, p) == IF holder = p THEN NoProc ELSE holder

\* Store::create: root.create_dir()?, then StoreLock::new(&root)?
StoreCreate(p) ==
    /\ procs[p].pc = "idle"
    /\ ~procs[p].store
    /\ procs' = [procs EXCEPT ![p].pc = "create_lock"]
    /\ UNCHANGED <<config_lock, vet_lock, cacheVars, reconVars, storeVars, pubVars, moreVars>>

\* Store::acquire up to StoreLock::new(&root)?
StoreAcquire(p) ==
    /\ procs[p].pc = "idle"
    /\ ~procs[p].store
    /\ procs' = [procs EXCEPT ![p].pc = "acquire_lock"]
    /\ UNCHANGED <<config_lock, vet_lock, cacheVars, reconVars, storeVars, pubVars, moreVars>>

\* Mutant: the store lock is taken without waiting for its holder.
StoreLockNew_NoWait(p) ==
    /\ procs[p].pc \in {"create_lock", "acquire_lock"}
    /\ config_lock' = p
    /\ procs' = [procs EXCEPT
                   ![p] = IF @.pc = "create_lock"
                          THEN [@ EXCEPT !.pc = "idle", !.store = TRUE]
                          ELSE [@ EXCEPT !.pc = "load", !.acquire = <<"lock">>]]
    /\ UNCHANGED <<vet_lock, cacheVars, reconVars, storeVars, pubVars, moreVars>>

\* StoreLock::new: store.open_rw(CONFIG_TOML, "vet store")? returns with the
\* lock held.  Store::create then returns the Store; Store::acquire goes on
\* to load the three documents.
StoreLockNew(p) ==
    /\ procs[p].pc \in {"create_lock", "acquire_lock"}
    /\ OpenRwGranted(config_lock)
    /\ config_lock' = p
    /\ procs' = [procs EXCEPT
                   ![p] = IF @.pc = "create_lock"
                          THEN [@ EXCEPT !.pc = "idle", !.store = TRUE]
                          ELSE [@ EXCEPT !.pc = "load", !.acquire = <<"lock">>]]
    /\ UNCHANGED <<vet_lock, cacheVars, reconVars, storeVars, pubVars, moreVars>>

\* StoreLock::new fails (FlockError): `?` returns the error, no lock is held.
StoreLockFails(p) ==
    /\ procs[p].pc \in {"create_lock", "acquire_lock"}
    /\ procs' = [procs EXCEPT ![p].pc = "idle"]
    /\ UNCHANGED <<config_lock, vet_lock, cacheVars, reconVars, storeVars, pubVars, moreVars>>

\* Store::acquire: load_toml of config.toml, audits.toml, imports.lock; an
\* error returns through `?` and drops the lock.  Then
\* `if let (false, Some(network)) = (cfg.cli.locked, network)`: live imports
\* are fetched when the command is not locked and a network was given;
\* otherwise live_imports is None and the Store is built.
StoreLoad(p) ==
    /\ procs[p].pc = "load"
    /\ \E ok, locked, has_network \in BOOLEAN :
         IF ~ok
         THEN /\ config_lock' = Unlocked(config_lock, p)
              /\ procs' = [procs EXCEPT ![p] = DropStore(@)]
         ELSE /\ procs' = [procs EXCEPT
                             ![p] = [@ EXCEPT
                                       !.pc = IF ~locked /\ has_network
                                              THEN "fetch" ELSE "validate",
                                       !.locked = locked,
                                       !.network = has_network,
                                       !.acquire = Append(@, "load")]]
              /\ UNCHANGED config_lock
    /\ UNCHANGED <<vet_lock, cacheVars, reconVars, storeVars, pubVars, moreVars>>

\* Store::acquire: fetch_imported_audits(..)? and process_imported_audits(..)?
StoreFetchImports(p) ==
    /\ procs[p].pc = "fetch"
    /\ \E ok \in BOOLEAN :
         IF ok
         THEN /\ procs' = [procs EXCEPT
                             ![p] = [@ EXCEPT !.pc = "imports_cache",
                                              !.acquire = Append(@, "reconcile")]]
              /\ UNCHANGED config_lock
         ELSE /\ config_lock' = Unlocked(config_lock, p)
              /\ procs' = [procs EXCEPT ![p] = DropStore(@)]
    /\ UNCHANGED <<vet_lock, cacheVars, reconVars, storeVars, pubVars, moreVars>>

\* Where a process is inside Cache::acquire, and where it continues with the
\* Cache.
CacheAcquirePcs == {"imports_cache", "ensure_cache", "cache_lock"}
AfterCacheAcquire(pc) ==
    IF pc = "imports_cache" THEN "import_pub"
    ELSE IF pc = "ensure_cache" THEN "ensure_pub"
    ELSE "idle"

\* Cache::acquire with cfg.mock_cache: a Cache with _lock: None.
CacheAcquireMock(p) ==
    /\ procs[p].pc \in CacheAcquirePcs
    /\ procs' = [procs EXCEPT ![p] = [@ EXCEPT !.pc = AfterCacheAcquire(procs[p].pc),
                                                !.cache = "mock"]]
    /\ UNCHANGED <<config_lock, vet_lock, cacheVars, reconVars, storeVars, pubVars, moreVars>>

\* Cache::acquire: Filesystem::new(root).open_rw(CACHE_VET_LOCK, "cache lock")?
\* returns with the lock held and the Cache is built around it.
CacheAcquireLock(p) ==
    /\ procs[p].pc \in CacheAcquirePcs
    /\ OpenRwGranted(vet_lock)
    /\ vet_lock' = p
    /\ procs' = [procs EXCEPT ![p] = [@ EXCEPT !.pc = AfterCacheAcquire(procs[p].pc),
                                                !.cache = "locked"]]
    /\ UNCHANGED <<config_lock, cacheVars, reconVars, storeVars, pubVars, moreVars>>

\* Cache::acquire fails (create_dir_all or open_rw): inside Store::acquire
\* the error returns through `?` and the store lock is dropped; a Store that
\* already exists keeps its lock.
CacheAcquireFails(p) ==
    /\ procs[p].pc \in CacheAcquirePcs
    /\ procs' = [procs EXCEPT ![p] = IF @.pc = "imports_cache" THEN DropStore(@)
                                     ELSE [@ EXCEPT !.pc = "idle", !.ensure = "none"]]
    /\ config_lock' = IF procs[p].pc = "imports_cache"
                      THEN Unlocked(config_lock, p) ELSE config_lock
    /\ UNCHANGED <<vet_lock, cacheVars, reconVars, storeVars, pubVars, moreVars>>

\* Store::acquire: import_publisher_versions(..)?; the Cache is dropped at the
\* end of the block (or by `?`).
StoreImportPublishers(p) ==
    /\ procs[p].pc = "import_pub"
    /\ vet_lock' = Unlocked(vet_lock, p)
    /\ \E ok \in BOOLEAN :
         IF ok
         THEN /\ procs' = [procs EXCEPT
                             ![p] = [@ EXCEPT !.pc = "validate",
                                              !.cache = "none",
                                              !.live_imports = TRUE,
                                              !.acquire = Append(@, "publishers")]]
              /\ UNCHANGED config_lock
         ELSE /\ config_lock' = Unlocked(config_lock, p)
              /\ procs' = [procs EXCEPT ![p] = [DropStore(@) EXCEPT !.cache = "none"]]
    /\ UNCHANGED <<cacheVars, reconVars, storeVars, pubVars, moreVars>>

\* Mutant: the Store is returned whatever validate says.
StoreValidate_Unchecked(p) ==
    /\ procs[p].pc = "validate"
    /\ \E ok \in BOOLEAN :
         procs' = [procs EXCEPT
                     ![p] = [@ EXCEPT
                               !.pc = "idle", !.store = TRUE, !.valid = ok,
                               !.acquire = Append(@, IF procs[p].locked
                                                     THEN "validate_formatting"
                                                     ELSE "validate")]]
    /\ UNCHANGED <<config_lock, vet_lock, cacheVars, reconVars, storeVars, pubVars, moreVars>>

\* Store::acquire: the Store is built with lock: Some(lock) and
\* store.validate(today, cfg.cli.locked)? is called; a validation error
\* drops the Store and with it the lock, otherwise the Store is returned.
StoreValidate(p) ==
    /\ procs[p].pc = "validate"
    /\ \E ok \in BOOLEAN :
         IF ok
         THEN /\ procs' = [procs EXCEPT
                             ![p] = [@ EXCEPT
                                       !.pc = "idle", !.store = TRUE, !.valid = TRUE,
                                       !.acquire = Append(@, IF procs[p].locked
                                                             THEN "validate_formatting"
                                                             ELSE "validate")]]
              /\ UNCHANGED config_lock
         ELSE /\ config_lock' = Unlocked(config_lock, p)
              /\ procs' = [procs EXCEPT ![p] = DropStore(@)]
    /\ UNCHANGED <<vet_lock, cacheVars, reconVars, storeVars, pubVars, moreVars>>

\* Store::clone_for_suggest: a copy with lock: None and the live imports of
\* the Store.
StoreCloneForSuggest(p) ==
    /\ procs[p].pc = "idle"
    /\ procs[p].store
    /\ ~procs[p].clone
    /\ procs' = [procs EXCEPT ![p].clone = TRUE,
                              ![p].clone_live = procs[p].live_imports]
    /\ UNCHANGED <<config_lock, vet_lock, cacheVars, reconVars, storeVars, pubVars, moreVars>>

\* The copy is dropped, or commit() is called on it: lock is None, nothing is
\* written and no lock is released.
StoreCloneEnds(p) ==
    /\ procs[p].pc = "idle"
    /\ procs[p].clone
    /\ procs' = [procs EXCEPT ![p].clone = FALSE, ![p].clone_live = FALSE]
    /\ UNCHANGED <<config_lock, vet_lock, cacheVars, reconVars, storeVars, pubVars, moreVars>>

\* Store::ensure_publisher_versions on the Store of the process or on its
\* clone_for_suggest copy: without a network or without live imports it
\* returns Ok(&[]); otherwise it goes on to Cache::acquire(cfg)?  (a process
\* has one Cache at a time).
StoreEnsurePublishers(p) ==
    /\ procs[p].pc = "idle"
    /\ procs[p].cache = "none"
    /\ \E self \in {"store", "clone"}, has_network \in BOOLEAN :
         /\ IF self = "store" THEN procs[p].store ELSE procs[p].clone
         /\ procs' = IF has_network /\ (IF self = "store" THEN procs[p].live_imports
                                        ELSE procs[p].clone_live)
                     THEN [procs EXCEPT ![p].pc = "ensure_cache", ![p].ensure = self]
                     ELSE procs
    /\ UNCHANGED <<config_lock, vet_lock, cacheVars, reconVars, storeVars, pubVars, moreVars>>

\* Mutant: the Cache of ensure_publisher_versions outlives the call.
StoreEnsureReturns_KeepCache(p) ==
    /\ procs[p].pc = "ensure_pub"
    /\ procs' = [procs EXCEPT ![p] = [@ EXCEPT !.pc = "idle", !.ensure = "none"]]
    /\ UNCHANGED <<config_lock, vet_lock, cacheVars, reconVars, storeVars, pubVars, moreVars>>

\* Store::ensure_publisher_versions returns (Ok or Err): its Cache is dropped.
StoreEnsureReturns(p) ==
    /\ procs[p].pc = "ensure_pub"
    /\ vet_lock' = Unlocked(vet_lock, p)
    /\ procs' = [procs EXCEPT ![p] = [@ EXCEPT !.pc = "idle", !.cache = "none",
                                                !.ensure = "none"]]
    /\ UNCHANGED <<config_lock, cacheVars, reconVars, storeVars, pubVars, moreVars>>

\* Cache::acquire called by the command itself.
CacheAcquire(p) ==
    /\ procs[p].pc = "idle"
    /\ procs[p].cache = "none"
    /\ procs' = [procs EXCEPT ![p].pc = "cache_lock"]
    /\ UNCHANGED <<config_lock, vet_lock, cacheVars, reconVars, storeVars, pubVars, moreVars>>

\* The Cache is dropped: Drop for Cache saves the caches, then _lock is dropped.
CacheDrop(p) ==
    /\ procs[p].pc = "idle"
    /\ procs[p].cache # "none"
    /\ vet_lock' = Unlocked(vet_lock, p)
    /\ procs' = [procs EXCEPT ![p].cache = "none"]
    /\ UNCHANGED <<config_lock, cacheVars, reconVars, storeVars, pubVars, moreVars>>

\* Mutant: commit gives up the lock before it writes.
StoreCommit_UnlockFirst(p) ==
    /\ procs[p].pc = "idle"
    /\ procs[p].store
    /\ config_lock' = Unlocked(config_lock, p)
    /\ procs' = [procs EXCEPT ![p].pc = "commit"]
    /\ UNCHANGED <<vet_lock, cacheVars, reconVars, storeVars, pubVars, moreVars>>

\* Store::commit(self) is called: `if let Some(lock) = self.lock` moves the
\* lock into the body, where the three documents are written.
StoreCommit(p) ==
    /\ procs[p].pc = "idle"
    /\ procs[p].store
    /\ procs' = [procs EXCEPT ![p].pc = "commit"]
    /\ UNCHANGED <<config_lock, vet_lock, cacheVars, reconVars, storeVars, pubVars, moreVars>>

\* Store::commit returns (Ok, or Err through `?`): the lock is dropped.
StoreCommitReturns(p) ==
    /\ procs[p].pc = "commit"
    /\ config_lock' = Unlocked(config_lock, p)
    /\ procs' = [procs EXCEPT ![p] = DropStore(@)]
    /\ UNCHANGED <<vet_lock, cacheVars, reconVars, storeVars, pubVars, moreVars>>

\* The Store is dropped without commit.
StoreDrop(p) ==
    /\ procs[p].pc = "idle"
    /\ procs[p].store
    /\ config_lock' = Unlocked(config_lock, p)
    /\ procs' = [procs EXCEPT ![p] = DropStore(@)]
    /\ UNCHANGED <<vet_lock, cacheVars, reconVars, storeVars, pubVars, moreVars>>

LockNext ==
    \E p \in Procs :
        \/ StoreCreate(p) \/ StoreAcquire(p) \/ StoreLockNew(p) \/ StoreLockFails(p)
        \/ StoreLoad(p) \/ StoreFetchImports(p)
        \/ CacheAcquireMock(p) \/ CacheAcquireLock(p) \/ CacheAcquireFails(p)
        \/ StoreImportPublishers(p) \/ StoreValidate(p)
        \/ StoreCloneForSuggest(p) \/ StoreCloneEnds(p)
        \/ StoreEnsurePublishers(p) \/ StoreEnsureReturns(p)
        \/ CacheAcquire(p) \/ CacheDrop(p)
        \/ StoreCommit(p) \/ StoreCommitReturns(p) \/ StoreDrop(p)

(***************************************************************************)
(* Import reconciliation: process_imported_audits (specification SpecRecon) *)
(***************************************************************************)
\* Longest list of audits of one package in a fetched file or in the lock.
MaxAudits == 2

SAFE_TO_RUN == "safe-to-run"
SAFE_TO_DEPLOY == "safe-to-deploy"

\* Custom criteria names in SortedMap key order: "fuzzed" is a criterion of
\* the peers, "reviewed" is the criterion of the local audits.toml, and
\* "audited" is defined by neither.
CustomNames == <<"audited", "fuzzed", "reviewed">>
CustomNameSet == {CustomNames[i] : i \in 1..Len(CustomNames)}
ReservedNames == {SAFE_TO_RUN, SAFE_TO_DEPLOY}
CriteriaNameSet == CustomNameSet \cup ReservedNames

Peers == <<"peer1", "peer2">>
PeerSet == {Peers[i] : i \in 1..Len(Peers)}
Packages == {"libx"}

Range(s) == {s[i] : i \in 1..Len(s)}
SeqsUpTo(S, n) == UNION {[1..k -> S] : k \in 0..n}

\* AuditsFile.criteria: SortedMap<CriteriaName, CriteriaEntry>, as a function
\* on the custom names with a presence flag.
NoUrl == "no-url"
AbsentEntry == [present |-> FALSE, description |-> "", description_url |-> NoUrl,
                implies |-> <<>>]
EmptyTable == [n \in CustomNameSet |-> AbsentEntry]
\* A criterion as a peer publishes it.
ForeignEntry(d) == [present |-> TRUE, description |-> d,
                    description_url |-> "https://peer/criteria", implies |-> <<SAFE_TO_RUN>>]
\* A criterion as kept in imports.lock.
LockedEntry(d) == [present |-> TRUE, description |-> d, description_url |-> NoUrl,
                   implies |-> <<>>]
TableWith(n, entry) == [EmptyTable EXCEPT ![n] = entry]

\* The criteria of the local audits.toml.
local_criteria == TableWith("reviewed", LockedEntry("reviewed by us"))

NoAudits == [pkg \in Packages |-> <<>>]
NoFile == [present |-> FALSE, criteria |-> EmptyTable, audits |-> NoAudits,
           wildcard_audits |-> NoAudits]
Audit(criteria, fresh) == [criteria |-> criteria, is_fresh_import |-> fresh]

\* ImportsFile { publisher, audits }
NoImports == [publisher |-> {}, audits |-> [p \in PeerSet |-> NoFile]]

\* CriteriaImport-less config entry, and ImportConfig { exclude, criteria_map }.
NotMapped == [mapped |-> FALSE, to |-> <<>>]
NoCriteriaMap == [n \in CriteriaNameSet |-> NotMapped]
MappedTo(list) == [mapped |-> TRUE, to |-> list]
NoImportConfig == [present |-> FALSE, exclude |-> {}, criteria_map |-> NoCriteriaMap]

\* Result<ImportsFile, CriteriaChangeErrors>; "abort" is a run that does not
\* return.
ReconPending == [st |-> "none", lock |-> NoImports, errors |-> <<>>]
ReconOk(lock) == [st |-> "ok", lock |-> lock, errors |-> <<>>]
ReconErr(errors) == [st |-> "err", lock |-> NoImports, errors |-> errors]
ReconAborted == [st |-> "abort", lock |-> NoImports, errors |-> <<>>]

\* No reconciliation is under way: the state of these variables in the
\* specifications of the Cache and of the locks, which never read them.
ReconIdle ==
    /\ fetched_audits = NotInUse
    /\ config_file = NotInUse
    /\ imports_lock = NotInUse
    /\ allow_criteria_changes = FALSE
    /\ rpc = "idle"
    /\ result1 = NotInUse
    /\ result2 = NotInUse

(***************************************************************************)
(* CriteriaMapper: a vocabulary in a stable order, bitsets over its indices *)
(***************************************************************************)
\* CriteriaMapper::new(&criteria).all_criteria_names()
AllCriteriaNames(criteria) ==
    SelectSeq(CustomNames, LAMBDA n : criteria[n].present)
        \o <<SAFE_TO_RUN, SAFE_TO_DEPLOY>>

\* criteria_from_list: the bits of the listed names.
CriteriaFromList(names, list) ==
    {i \in 1..Len(names) : \E j \in 1..Len(list) : list[j] = names[i]}

\* A listed name has no bit in the vocabulary.
HasUnknownName(names, list) == \E j \in 1..Len(list) : list[j] \notin Range(names)

\* criteria_names: the names of the set bits, in index order.
CriteriaNames(names, set) ==
    LET idx == [i \in 1..Len(names) |-> i]
        picked == SelectSeq(idx, LAMBDA i : i \in set)
    IN  [k \in 1..Len(picked) |-> names[picked[k]]]

NoCriteria == {}

\* AuditEntry::same_audit_as: structural equality, the freshness flag aside.
SameAuditAs(a, b) ==
    [a EXCEPT !.is_fresh_import = FALSE] = [b EXCEPT !.is_fresh_import = FALSE]

(***************************************************************************)
(* process_imported_audits, one peer                                       *)
(***************************************************************************)
\* for excluded in &config.exclude { audits_file.audits.remove(excluded); }
ExcludeAudits(audits, exclude) ==
    [pkg \in Packages |-> IF pkg \in exclude THEN <<>> ELSE audits[pkg]]

\* Mutant: the built-in criteria are tried before the criteria map.
ForeignToLocalMapping_BuiltinFirst(foreign_names, local_names, criteria_map) ==
    [i \in 1..Len(foreign_names) |->
        LET foreign_name == foreign_names[i] IN
        IF foreign_name = SAFE_TO_DEPLOY
        THEN CriteriaFromList(local_names, <<SAFE_TO_DEPLOY>>)
        ELSE IF foreign_name = SAFE_TO_RUN
        THEN CriteriaFromList(local_names, <<SAFE_TO_RUN>>)
        ELSE IF criteria_map[foreign_name].mapped
        THEN CriteriaFromList(local_names, criteria_map[foreign_name].to)
        ELSE NoCriteria]

\* foreign_to_local_mapping: per foreign criterion (by index) its local bitset.
ForeignToLocalMapping(foreign_names, local_names, criteria_map) ==
    [i \in 1..Len(foreign_names) |->
        LET foreign_name == foreign_names[i] IN
        IF criteria_map[foreign_name].mapped
        THEN CriteriaFromList(local_names, criteria_map[foreign_name].to)
        ELSE IF foreign_name = SAFE_TO_DEPLOY
        THEN CriteriaFromList(local_names, <<SAFE_TO_DEPLOY>>)
        ELSE IF foreign_name = SAFE_TO_RUN
        THEN CriteriaFromList(local_names, <<SAFE_TO_RUN>>)
        ELSE NoCriteria]

\* Building the mapping asks the local mapper for a name it does not have.
MappingHasUnknownName(foreign_names, local_names, criteria_map) ==
    \E i \in 1..Len(foreign_names) :
        /\ criteria_map[foreign_names[i]].mapped
        /\ HasUnknownName(local_names, criteria_map[foreign_names[i]].to)

\* make_criteria_local
MakeCriteriaLocal(foreign_names, local_names, mapping, criteria) ==
    LET foreign_set == CriteriaFromList(foreign_names, criteria)
        local_set == UNION {mapping[i] : i \in foreign_set}
    IN  CriteriaNames(local_names, local_set)

\* Mutant: an audit left with no local criteria is removed.
FreshLocalAudits_DropEmpty(foreign_names, local_names, mapping, audits) ==
    [pkg \in Packages |->
        SelectSeq([i \in 1..Len(audits[pkg]) |->
                      Audit(MakeCriteriaLocal(foreign_names, local_names, mapping,
                                              audits[pkg][i].criteria), TRUE)],
                  LAMBDA a : a.criteria # <<>>)]

\* for audit_entry in audits_file.audits ..: is_fresh_import = true and
\* make_criteria_local(&mut audit_entry.criteria)
FreshLocalAudits(foreign_names, local_names, mapping, audits) ==
    [pkg \in Packages |->
        [i \in 1..Len(audits[pkg]) |->
            Audit(MakeCriteriaLocal(foreign_names, local_names, mapping,
                                    audits[pkg][i].criteria), TRUE)]]

\* Mutant: the wildcard audits keep the criteria of the peer.
FreshLocalWildcardAudits_KeepForeign(foreign_names, local_names, mapping, audits) ==
    [pkg \in Packages |->
        [i \in 1..Len(audits[pkg]) |-> Audit(audits[pkg][i].criteria, TRUE)]]

\* The same for audits_file.wildcard_audits.
FreshLocalWildcardAudits(foreign_names, local_names, mapping, audits) ==
    [pkg \in Packages |->
        [i \in 1..Len(audits[pkg]) |->
            Audit(MakeCriteriaLocal(foreign_names, local_names, mapping,
                                    audits[pkg][i].criteria), TRUE)]]

\* Mutant: every criterion of the peer is kept.
RetainCriteria_KeepAll(criteria, criteria_map) ==
    [n \in CustomNameSet |->
        IF criteria[n].present
        THEN [criteria[n] EXCEPT !.description_url = NoUrl, !.implies = <<>>]
        ELSE AbsentEntry]

\* audits_file.criteria.retain(..): description_url and implies are cleared
\* and only the criteria named in the criteria map stay.
RetainCriteria(criteria, criteria_map) ==
    [n \in CustomNameSet |->
        IF criteria[n].present /\ criteria_map[n].mapped
        THEN [criteria[n] EXCEPT !.description_url = NoUrl, !.implies = <<>>]
        ELSE AbsentEntry]

\* The criteria of the existing file that the new file also has, with another
\* description: the CriteriaChangeErrors pushed for this peer, in key order.
ChangedCriteria(import_name, existing_criteria, new_criteria) ==
    LET changed == SelectSeq(CustomNames, LAMBDA n :
                       /\ existing_criteria[n].present
                       /\ new_criteria[n].present
                       /\ existing_criteria[n].description # new_criteria[n].description)
    IN  [k \in 1..Len(changed) |-> <<import_name, changed[k]>>]

\* Mutant: the first equivalent new audit is cleared again and again.
MarkOne_AlreadyMarked(existing_audit, new_audits) ==
    LET hits == {j \in 1..Len(new_audits) : SameAuditAs(new_audits[j], existing_audit)}
    IN  IF hits = {} THEN new_audits
        ELSE LET first == CHOOSE j \in hits : \A h \in hits : j <= h
             IN  [new_audits EXCEPT ![first].is_fresh_import = FALSE]

\* for new_audit in new_audits { if new_audit.is_fresh_import &&
\* new_audit.same_audit_as(existing_audit) { .. = false; break; } }
MarkOne(existing_audit, new_audits) ==
    LET hits == {j \in 1..Len(new_audits) :
                    /\ new_audits[j].is_fresh_import
                    /\ SameAuditAs(new_audits[j], existing_audit)}
    IN  IF hits = {} THEN new_audits
        ELSE LET first == CHOOSE j \in hits : \A h \in hits : j <= h
             IN  [new_audits EXCEPT ![first].is_fresh_import = FALSE]

\* for existing_audit in existing_audits { .. }
RECURSIVE MarkAll(_, _)
MarkAll(existing_audits, new_audits) ==
    IF existing_audits = <<>> THEN new_audits
    ELSE MarkAll(Tail(existing_audits), MarkOne(Head(existing_audits), new_audits))

\* Mutant: only the first existing audit of a package is looked for.
MarkNonFresh_FirstOnly(existing, new) ==
    [pkg \in Packages |->
        IF existing[pkg] = <<>> THEN new[pkg]
        ELSE MarkOne(Head(existing[pkg]), new[pkg])]

\* for (package, existing_audits) in &existing_audits_file.audits { .. } and
\* the same loop over the wildcard audits.
MarkNonFresh(existing, new) ==
    [pkg \in Packages |-> MarkAll(existing[pkg], new[pkg])]

\* Mutant: the descriptions are compared whatever allow_criteria_changes is.
ProcessPeer_AlwaysCompare(import_name, audits_file, config, existing_audits_file) ==
    LET local_names == AllCriteriaNames(local_criteria)
        foreign_names == AllCriteriaNames(audits_file.criteria)
        mapping == ForeignToLocalMapping(foreign_names, local_names, config.criteria_map)
        audits == FreshLocalAudits(foreign_names, local_names, mapping,
                                   ExcludeAudits(audits_file.audits, config.exclude))
        wildcard_audits == FreshLocalWildcardAudits(foreign_names, local_names, mapping,
                                                    audits_file.wildcard_audits)
        criteria == RetainCriteria(audits_file.criteria, config.criteria_map)
    IN  [file |->
           [present |-> TRUE,
            criteria |-> criteria,
            audits |-> IF existing_audits_file.present
                       THEN MarkNonFresh(existing_audits_file.audits, audits)
                       ELSE audits,
            wildcard_audits |->
                       IF existing_audits_file.present
                       THEN MarkNonFresh(existing_audits_file.wildcard_audits,
                                         wildcard_audits)
                       ELSE wildcard_audits],
         changed |-> IF existing_audits_file.present
                     THEN ChangedCriteria(import_name, existing_audits_file.criteria,
                                          criteria)
                     ELSE <<>>]

\* The body of `for (import_name, mut audits_file) in fetched_audits`: the
\* file inserted into new_imports.audits and the errors pushed.
ProcessPeer(import_name, audits_file, config, existing_audits_file) ==
    LET local_names == AllCriteriaNames(local_criteria)
        foreign_names == AllCriteriaNames(audits_file.criteria)
        mapping == ForeignToLocalMapping(foreign_names, local_names, config.criteria_map)
        audits == FreshLocalAudits(foreign_names, local_names, mapping,
                                   ExcludeAudits(audits_file.audits, config.exclude))
        wildcard_audits == FreshLocalWildcardAudits(foreign_names, local_names, mapping,
                                                    audits_file.wildcard_audits)
        criteria == RetainCriteria(audits_file.criteria, config.criteria_map)
    IN  [file |->
           [present |-> TRUE,
            criteria |-> criteria,
            audits |-> IF existing_audits_file.present
                       THEN MarkNonFresh(existing_audits_file.audits, audits)
                       ELSE audits,
            wildcard_audits |->
                       IF existing_audits_file.present
                       THEN MarkNonFresh(existing_audits_file.wildcard_audits,
                                         wildcard_audits)
                       ELSE wildcard_audits],
         changed |-> IF existing_audits_file.present /\ ~allow_criteria_changes
                     THEN ChangedCriteria(import_name, existing_audits_file.criteria,
                                          criteria)
                     ELSE <<>>]

\* The loop over fetched_audits: new_imports starts with empty publisher and
\* audits maps, changed_criteria with no error.
RECURSIVE ProcessPeers(_, _, _, _)
ProcessPeers(fetched, prior, new_imports, changed_criteria) ==
    IF fetched = <<>>
    THEN [new_imports |-> new_imports, changed_criteria |-> changed_criteria]
    ELSE LET import_name == Head(fetched).name
             done == ProcessPeer(import_name, Head(fetched).file,
                                 config_file[import_name], prior.audits[import_name])
         IN  ProcessPeers(Tail(fetched), prior,
                          [new_imports EXCEPT !.audits[import_name] = done.file],
                          changed_criteria \o done.changed)

\* Mutant: new_imports starts with the publisher map of imports.lock.
ProcessImportedAudits_KeepPublisher(fetched, prior) ==
    LET out == ProcessPeers(fetched, prior,
                            [NoImports EXCEPT !.publisher = prior.publisher], <<>>)
    IN  IF out.changed_criteria # <<>>
        THEN ReconErr(out.changed_criteria)
        ELSE ReconOk(out.new_imports)

\* Mutant: new_imports starts with the peers of imports.lock.
ProcessImportedAudits_KeepPeers(fetched, prior) ==
    LET out == ProcessPeers(fetched, prior, [prior EXCEPT !.publisher = {}], <<>>)
    IN  IF out.changed_criteria # <<>>
        THEN ReconErr(out.changed_criteria)
        ELSE ReconOk(out.new_imports)

\* process_imported_audits when every name of the criteria maps is known.
ProcessImportedAudits(fetched, prior) ==
    LET out == ProcessPeers(fetched, prior, NoImports, <<>>)
    IN  IF out.changed_criteria # <<>>
        THEN ReconErr(out.changed_criteria)
        ELSE ReconOk(out.new_imports)

\* Some criteria map of a fetched peer names a criterion that the local
\* mapper does not have.
AsksUnknownName(fetched) ==
    \E k \in 1..Len(fetched) :
        MappingHasUnknownName(AllCriteriaNames(fetched[k].file.criteria),
                              AllCriteriaNames(local_criteria),
                              config_file[fetched[k].name].criteria_map)

(***************************************************************************)
(* The inputs of a reconciliation, and its runs                            *)
(***************************************************************************)
\* Criteria lists of the audits a peer publishes (foreign_audit_file_to_local
\* keeps the names of the peer's vocabulary and drops an entry left with
\* none), and of the audits found in imports.lock.
ForeignCriteriaLists == {<<SAFE_TO_RUN>>, <<SAFE_TO_DEPLOY, "fuzzed">>}
LockedCriteriaLists == {<<SAFE_TO_RUN>>, <<"reviewed", SAFE_TO_DEPLOY>>}
Descriptions == {"fuzzed for a day", "fuzzed for a week"}
LockedDescription == "fuzzed for a day"

ForeignTables ==
    {EmptyTable} \cup {TableWith("fuzzed", ForeignEntry(d)) : d \in Descriptions}

\* Audits as deserialized: is_fresh_import is not read from the document.
AuditsOf(lists) == {Audit(c, FALSE) : c \in lists}

InVocabulary(criteria, audits) ==
    \A pkg \in Packages : \A i \in 1..Len(audits[pkg]) :
        Range(audits[pkg][i].criteria) \subseteq Range(AllCriteriaNames(criteria))

FetchedFiles ==
    {f \in [present : {TRUE},
            criteria : ForeignTables,
            audits : [Packages -> SeqsUpTo(AuditsOf(ForeignCriteriaLists), MaxAudits)],
            wildcard_audits : [Packages -> SeqsUpTo(AuditsOf(ForeignCriteriaLists), 1)]] :
        /\ InVocabulary(f.criteria, f.audits)
        /\ InVocabulary(f.criteria, f.wildcard_audits)}

\* The second peer publishes its criterion and no audits.
SmallFetchedFiles ==
    {[present |-> TRUE, criteria |-> TableWith("fuzzed", ForeignEntry(d)),
      audits |-> NoAudits, wildcard_audits |-> NoAudits] : d \in Descriptions}

FetchedInputs ==
    {<<[name |-> Peers[1], file |-> f1]>> : f1 \in FetchedFiles}
    \cup {<<[name |-> Peers[1], file |-> f1], [name |-> Peers[2], file |-> f2]>> :
             f1 \in FetchedFiles, f2 \in SmallFetchedFiles}

LockedTables == {EmptyTable, TableWith("fuzzed", LockedEntry(LockedDescription))}

PriorFiles ==
    {NoFile} \cup
    [present : {TRUE},
     criteria : LockedTables,
     audits : [Packages -> SeqsUpTo(AuditsOf(LockedCriteriaLists), MaxAudits)],
     wildcard_audits : [Packages -> SeqsUpTo(AuditsOf(LockedCriteriaLists), 1)]]

SmallPriorFiles ==
    {NoFile,
     [present |-> TRUE, criteria |-> TableWith("fuzzed", LockedEntry(LockedDescription)),
      audits |-> NoAudits, wildcard_audits |-> NoAudits]}

\* imports.lock as loaded: some publisher records, and per peer its file.
PriorLocks ==
    {[publisher |-> {"libx"}, audits |-> [p \in PeerSet |-> IF p = Peers[1] THEN f1 ELSE f2]] :
        f1 \in PriorFiles, f2 \in SmallPriorFiles}

CriteriaMaps ==
    {NoCriteriaMap,
     [NoCriteriaMap EXCEPT !["fuzzed"] = MappedTo(<<"reviewed">>)],
     [NoCriteriaMap EXCEPT !["fuzzed"] = MappedTo(<<SAFE_TO_DEPLOY, "reviewed">>),
                           ![SAFE_TO_RUN] = MappedTo(<<"reviewed">>)],
     [NoCriteriaMap EXCEPT !["fuzzed"] = MappedTo(<<"audited", "reviewed">>)],
     [NoCriteriaMap EXCEPT ![SAFE_TO_RUN] = MappedTo(<<>>)]}

\* config.toml has an import for exactly the peers that were fetched.
ConfigsFor(fetched) ==
    {[p \in PeerSet |->
        IF p = Peers[1]
        THEN [present |-> TRUE, exclude |-> ex, criteria_map |-> cm]
        ELSE IF Len(fetched) = 2
        THEN [present |-> TRUE, exclude |-> {},
              criteria_map |-> [NoCriteriaMap EXCEPT !["fuzzed"] = MappedTo(<<"reviewed">>)]]
        ELSE NoImportConfig] :
        ex \in SUBSET Packages, cm \in CriteriaMaps}

ReconInit ==
    /\ fetched_audits \in FetchedInputs
    /\ config_file \in ConfigsFor(fetched_audits)
    /\ imports_lock \in PriorLocks
    /\ allow_criteria_changes \in BOOLEAN
    /\ rpc = "fetched"
    /\ result1 = ReconPending
    /\ result2 = ReconPending

\* What a run can end with: when a criteria map names a criterion the local
\* mapper does not have, criteria_from_list either skips the name or does
\* not return.
Outcomes(fetched, prior) ==
    IF AsksUnknownName(fetched)
    THEN {ReconAborted, ProcessImportedAudits(fetched, prior)}
    ELSE {ProcessImportedAudits(fetched, prior)}

\* Store::acquire: process_imported_audits(fetched_audits, &audits, &config,
\* &imports, allow_criteria_changes)
Reconcile ==
    /\ rpc = "fetched"
    /\ \E r \in Outcomes(fetched_audits, imports_lock) : result1' = r
    /\ rpc' = "once"
    /\ UNCHANGED <<fetched_audits, config_file, imports_lock, allow_criteria_changes,
                   result2, cacheVars, lockVars, storeVars, pubVars, moreVars>>

\* The same fetched audits are processed again, with the imports of the
\* first run as the lock.
ReconcileAgain ==
    /\ rpc = "once"
    /\ result1.st = "ok"
    /\ result2' = ProcessImportedAudits(fetched_audits, result1.lock)
    /\ rpc' = "twice"
    /\ UNCHANGED <<fetched_audits, config_file, imports_lock, allow_criteria_changes,
                   result1, cacheVars, lockVars, storeVars, pubVars, moreVars>>

ReconNext == Reconcile \/ ReconcileAgain

(***************************************************************************)
(* One Store with its contents: validate, clone_for_suggest and commit      *)
(* (specification SpecStore)                                                *)
(***************************************************************************)
\* chrono::NaiveDate as <<year, month, day>>; `>` on dates.
DateAfter_OrEqual(a, b) ==
    \/ a[1] > b[1]
    \/ a[1] = b[1] /\ a[2] > b[2]
    \/ a[1] = b[1] /\ a[2] = b[2] /\ a[3] >= b[3]

DateAfter(a, b) ==
    \/ a[1] > b[1]
    \/ a[1] = b[1] /\ a[2] > b[2]
    \/ a[1] = b[1] /\ a[2] = b[2] /\ a[3] > b[3]

\* date + chrono::Months::new(n): the month is advanced and the day is
\* clamped to the last day of the month reached.
AddMonths(date, n) ==
    LET m0 == date[1] * 12 + (date[2] - 1) + n
        y == m0 \div 12
        m == (m0 % 12) + 1
        leap == (y % 4 = 0 /\ y % 100 # 0) \/ y % 400 = 0
        last == IF m = 2 THEN (IF leap THEN 29 ELSE 28)
                ELSE IF m \in {4, 6, 9, 11} THEN 30 ELSE 31
    IN <<y, m, IF date[3] > last THEN last ELSE date[3]>>

RECURSIVE Flatten(_)
Flatten(seqs) == IF seqs = <<>> THEN <<>> ELSE Head(seqs) \o Flatten(Tail(seqs))

\* SortedMap<PackageName, Vec<_>> is a function on its keys; the entries of
\* every key, in the order of the keys.
ValuesOf(map) ==
    LET keys == SelectSeq(<<"libx", "liby">>, LAMBDA k : k \in DOMAIN map)
    IN Flatten([i \in 1..Len(keys) |-> map[keys[i]]])

\* The text of a document: the value it spells and how it is laid out
\* ("canonical" is what store_toml prints, "padded" is the same followed by
\* blank lines, "other" differs inside: spacing, comments, unknown fields).
\* EmptyText is a file of length 0.
EmptyText == [value |-> <<>>, layout |-> "empty"]
trim_end(text) ==
    IF text.layout = "padded" THEN [text EXCEPT !.layout = "canonical"] ELSE text

\* entries.sort(): by version, the first field of the derived order.
RECURSIVE SortEntries(_)
SortEntries(entries) ==
    IF entries = <<>> THEN <<>>
    ELSE LET least == CHOOSE i \in 1..Len(entries) :
                        \A j \in 1..Len(entries) :
                            \/ entries[i].version < entries[j].version
                            \/ entries[i].version = entries[j].version /\ i <= j
         IN <<entries[least]>> \o
            SortEntries(SubSeq(entries, 1, least - 1) \o
                        SubSeq(entries, least + 1, Len(entries)))

\* store_config / store_audits / store_imports: the lists of every package
\* are sorted (config: exemptions, audits: audits), then store_toml prints.
store_config(config) ==
    [value |-> [config EXCEPT !.exemptions =
                   [k \in DOMAIN config.exemptions |-> SortEntries(config.exemptions[k])]],
     layout |-> "canonical"]
store_audits(audits) ==
    [value |-> [audits EXCEPT !.audits =
                   [k \in DOMAIN audits.audits |-> SortEntries(audits.audits[k])]],
     layout |-> "canonical"]
store_imports(imports) == [value |-> imports, layout |-> "canonical"]

\* validate's check_criteria: one InvalidCriteria for every name of the list
\* that is not among the valid names.
check_criteria_FirstOnly(source_code, valid, criteria) ==
    LET bad == SelectSeq(criteria, LAMBDA c : c \notin valid)
    IN IF bad = <<>> THEN <<>>
       ELSE <<[kind |-> "InvalidCriteria", source_code |-> source_code,
               invalid |-> bad[1]]>>

check_criteria(source_code, valid, criteria) ==
    LET bad == SelectSeq(criteria, LAMBDA c : c \notin valid)
    IN [i \in 1..Len(bad) |->
           [kind |-> "InvalidCriteria", source_code |-> source_code,
            invalid |-> bad[i]]]

\* Store::imports_lock_outdated
imports_lock_outdated(s) ==
    IF s.live_imports # <<>> THEN FALSE
    ELSE IF DOMAIN s.config.imports # DOMAIN s.imports.audits THEN TRUE
    ELSE \E import_name \in DOMAIN s.config.imports :
            \E crate_name \in s.config.imports[import_name].exclude :
                crate_name \in DOMAIN s.imports.audits[import_name].audits

\* Store::validate(&self, today, check_file_formatting): every check adds its
\* errors to one list; Err(StoreValidateErrors) when the list is not empty.
\* (Of an error the model keeps the kind and what it names, not the span.)
validate(s, today, check_file_formatting) ==
    LET max_end_date == AddMonths(today, 12)
        valid_criteria == DOMAIN s.audits.criteria \cup {SAFE_TO_RUN, SAFE_TO_DEPLOY}
        Each(list, F(_)) == Flatten([i \in 1..Len(list) |-> F(list[i])])
        unwrap_or_none(opt) == IF opt = <<>> THEN <<>> ELSE opt[1]
        in_config(criteria) == check_criteria("config.toml", valid_criteria, criteria)
        in_audits(criteria) == check_criteria("audits.toml", valid_criteria, criteria)
        exemptions == Each(ValuesOf(s.config.exemptions),
                           LAMBDA entry : in_config(entry.criteria))
        policy == Each(s.config.policy,
                       LAMBDA p : in_config(unwrap_or_none(p.criteria))
                                  \o in_config(unwrap_or_none(p.dev_criteria))
                                  \o Each(p.dependency_criteria, in_config))
        implies == Each(SelectSeq(CustomNames, LAMBDA c : c \in DOMAIN s.audits.criteria),
                        LAMBDA c : in_audits(s.audits.criteria[c].implies))
        audits == Each(ValuesOf(s.audits.audits),
                       LAMBDA entry : in_audits(entry.criteria))
        wildcard_audits ==
            Each(ValuesOf(s.audits.wildcard_audits),
                 LAMBDA entry :
                     in_audits(entry.criteria)
                     \o IF DateAfter(entry.end, max_end_date)
                        THEN <<[kind |-> "BadWildcardEndDate", date |-> entry.end,
                                max |-> max_end_date]>>
                        ELSE <<>>)
        BadFormat(name, old, new) ==
            IF trim_end(old) # trim_end(new)
            THEN <<[kind |-> "BadFormat", name |-> name]>> ELSE <<>>
        formatting ==
            IF check_file_formatting
            THEN BadFormat("config.toml", s.config_src, store_config(s.config))
                 \o BadFormat("audits.toml", s.audits_src, store_audits(s.audits))
                 \o BadFormat("imports.lock", s.imports_src, store_imports(s.imports))
            ELSE <<>>
        outdated == IF imports_lock_outdated(s)
                    THEN <<[kind |-> "ImportsLockOutdated"]>> ELSE <<>>
        errors == exemptions \o policy \o implies \o audits \o wildcard_audits
                  \o formatting \o outdated
    IN [ok |-> errors = <<>>, errors |-> errors]

\* Store::clone_for_suggest: every field is cloned, lock is None, and of the
\* exemptions of every package those with suggest = false are retained.
clone_for_suggest_KeepAll(s) == [s EXCEPT !.lock = FALSE]

clone_for_suggest_KeepLock(s) ==
    [s EXCEPT !.config.exemptions =
                  [k \in DOMAIN s.config.exemptions |->
                      SelectSeq(s.config.exemptions[k], LAMBDA e : ~e.suggest)]]

clone_for_suggest(s) ==
    [s EXCEPT !.lock = FALSE,
              !.config.exemptions =
                  [k \in DOMAIN s.config.exemptions |->
                      SelectSeq(s.config.exemptions[k], LAMBDA e : ~e.suggest)]]

\* A Store that is gone (dropped, or consumed by commit).
NoStore == [lock |-> FALSE, dropped |-> TRUE]

\* Store::acquire after load_toml of the three documents: the Store holds the
\* lock, the parsed values and their source texts.  The documents are drawn
\* from small sets: criteria lists with known and unknown names, exemptions
\* with and without suggest, wildcard audits ending around a year from today,
\* an imports.lock in and out of step with config.imports, files laid out as
\* store_toml prints them, padded with blank lines, or otherwise.
StoreInit ==
    LET NoEntries == [k \in {} |-> <<>>]
        KnownRefs == <<SAFE_TO_DEPLOY>>
        MixedRefs == <<"reviewed", "bogus", "bogus">>
        RefLists == {KnownRefs, MixedRefs}
        Exemption(version, criteria, suggest) ==
            [version |-> version, criteria |-> criteria, suggest |-> suggest]
        ExemptionTables ==
            {NoEntries}
            \cup {("libx" :> <<Exemption(2, c, TRUE), Exemption(1, c, FALSE)>>)
                  @@ ("liby" :> <<Exemption(1, KnownRefs, TRUE)>>) : c \in RefLists}
            \cup {"libx" :> <<Exemption(1, c, FALSE), Exemption(3, KnownRefs, FALSE)>> :
                    c \in RefLists}
        Policies ==
            {<<>>,
             <<[criteria |-> <<KnownRefs>>, dev_criteria |-> <<>>,
                dependency_criteria |-> <<KnownRefs>>]>>,
             <<[criteria |-> <<MixedRefs>>, dev_criteria |-> <<KnownRefs>>,
                dependency_criteria |-> <<>>]>>,
             <<[criteria |-> <<>>, dev_criteria |-> <<MixedRefs>>,
                dependency_criteria |-> <<MixedRefs, KnownRefs>>]>>}
        CriteriaTables ==
            {NoEntries,
             "reviewed" :> [implies |-> <<SAFE_TO_RUN>>],
             "reviewed" :> [implies |-> <<"bogus", SAFE_TO_RUN>>]}
        AuditTables ==
            {NoEntries,
             "libx" :> <<[version |-> 2, criteria |-> KnownRefs],
                         [version |-> 1, criteria |-> MixedRefs]>>}
        WildcardTables ==
            {NoEntries}
            \cup {"libx" :> <<[criteria |-> KnownRefs, end |-> end]>> :
                    end \in {<<2025, 2, 28>>, <<2025, 3, 1>>,
                             <<2025, 5, 1>>, <<2025, 5, 2>>}}
            \cup {("libx" :> <<[criteria |-> MixedRefs, end |-> <<2026, 1, 1>>],
                               [criteria |-> KnownRefs, end |-> <<2025, 5, 1>>]>>)
                  @@ ("liby" :> <<[criteria |-> KnownRefs, end |-> <<2025, 6, 1>>]>>)}
        ImportConfigs ==
            {"peer1" :> [exclude |-> {"libx"}],
             ("peer1" :> [exclude |-> {"libx"}]) @@ ("peer2" :> [exclude |-> {}])}
        LockEntry(audits, wildcard_audits) ==
            [audits |-> audits, wildcard_audits |-> wildcard_audits]
        SomeAudits == <<[version |-> 1, criteria |-> KnownRefs]>>
        SomeWildcardAudits == <<[criteria |-> KnownRefs, end |-> <<2025, 1, 1>>]>>
        ImportsFiles ==
            {[audits |-> a] :
                a \in {"peer1" :> LockEntry("liby" :> SomeAudits, NoEntries),
                       "peer1" :> LockEntry("libx" :> SomeAudits, NoEntries),
                       "peer1" :> LockEntry(NoEntries, "libx" :> SomeWildcardAudits),
                       ("peer1" :> LockEntry(NoEntries, NoEntries))
                       @@ ("peer2" :> LockEntry("libx" :> SomeAudits, NoEntries))}}
        LiveImports ==
            {<<>>, <<[audits |-> "peer1" :> LockEntry("liby" :> SomeAudits, NoEntries)]>>}
        Layouts ==
            {[config |-> "canonical", audits |-> "canonical", imports |-> "canonical"],
             [config |-> "padded", audits |-> "canonical", imports |-> "padded"],
             [config |-> "other", audits |-> "padded", imports |-> "other"],
             [config |-> "canonical", audits |-> "other", imports |-> "canonical"]}
    IN /\ \E exemptions \in ExemptionTables, policy \in Policies,
             imports_cfg \in ImportConfigs, criteria \in CriteriaTables,
             audits \in AuditTables, wildcard_audits \in WildcardTables,
             imports \in ImportsFiles, live_imports \in LiveImports,
             layout \in Layouts :
            LET config == [imports |-> imports_cfg, policy |-> policy,
                           exemptions |-> exemptions]
                audits_file == [criteria |-> criteria, audits |-> audits,
                                wildcard_audits |-> wildcard_audits]
            IN store = [lock |-> TRUE, config |-> config, audits |-> audits_file,
                        imports |-> imports, live_imports |-> live_imports,
                        config_src |-> [value |-> config, layout |-> layout.config],
                        audits_src |-> [value |-> audits_file, layout |-> layout.audits],
                        imports_src |-> [value |-> imports, layout |-> layout.imports]]
       /\ clone = NoStore
       /\ disk = [config |-> store.config_src, audits |-> store.audits_src,
                  imports |-> store.imports_src]
       /\ store_lock = "held"
       /\ validated = [done |-> FALSE]
       /\ commit_pc = [who |-> "none", pc |-> "none"]

StoreIdle ==
    /\ store = NotInUse
    /\ clone = NotInUse
    /\ disk = NotInUse
    /\ store_lock = NotInUse
    /\ validated = NotInUse
    /\ commit_pc = NotInUse

\* Store::acquire calls store.validate(today, cfg.cli.locked); validate takes
\* &self.  (The model also calls it with the other value of the flag.)
Validate ==
    /\ ~validated.done
    /\ \E today \in {<<2024, 2, 29>>, <<2024, 5, 1>>}, check_file_formatting \in BOOLEAN :
         validated' = [done |-> TRUE, returned |-> FALSE, today |-> today,
                       check_file_formatting |-> check_file_formatting,
                       result |-> validate(store, today, check_file_formatting)]
    /\ UNCHANGED <<store, clone, disk, store_lock, commit_pc>>
    /\ UNCHANGED <<cacheVars, lockVars, reconVars, pubVars, moreVars>>

\* Store::acquire: `store.validate(..)?; Ok(store)`: an error drops the Store
\* and with it the lock.
AcquireReturns ==
    /\ validated.done /\ ~validated.returned
    /\ validated' = [validated EXCEPT !.returned = TRUE]
    /\ IF validated.result.ok
       THEN UNCHANGED <<store, store_lock>>
       ELSE store' = NoStore /\ store_lock' = "free"
    /\ UNCHANGED <<clone, disk, commit_pc>>
    /\ UNCHANGED <<cacheVars, lockVars, reconVars, pubVars, moreVars>>

\* A command changes the Store in memory (its fields are pub): here it pushes
\* one exemption for a package.
Edit ==
    /\ validated.done /\ validated.returned
    /\ store # NoStore
    /\ commit_pc.who # "store"
    /\ store.config = store.config_src.value
    /\ \E pkg \in {"libx", "liby"}, suggest \in BOOLEAN :
         LET old == store.config.exemptions
             entry == [version |-> 0, criteria |-> <<SAFE_TO_DEPLOY>>,
                       suggest |-> suggest]
             versions == IF pkg \in DOMAIN old THEN old[pkg] ELSE <<>>
         IN store' = [store EXCEPT !.config.exemptions =
                         [k \in DOMAIN old \cup {pkg} |->
                             IF k = pkg THEN Append(versions, entry) ELSE old[k]]]
    /\ UNCHANGED <<clone, disk, store_lock, validated, commit_pc>>
    /\ UNCHANGED <<cacheVars, lockVars, reconVars, pubVars, moreVars>>

\* store.clone_for_suggest()
CloneForSuggest ==
    /\ validated.done /\ validated.returned
    /\ store # NoStore
    /\ commit_pc.who # "store"
    /\ clone = NoStore
    /\ clone' = clone_for_suggest(store)
    /\ UNCHANGED <<store, disk, store_lock, validated, commit_pc>>
    /\ UNCHANGED <<cacheVars, lockVars, reconVars, pubVars, moreVars>>

\* Store::commit(self) is called on the Store or on its clone.  With
\* lock: None the body of `if let Some(lock) = self.lock` is skipped and
\* Ok(()) is returned.
CommitBegin ==
    /\ validated.done /\ validated.returned
    /\ commit_pc.who = "none"
    /\ \E who \in {"store", "clone"} :
         LET self == IF who = "store" THEN store ELSE clone
         IN /\ self # NoStore
            /\ commit_pc' = [who |-> who,
                             pc |-> IF self.lock THEN "write_audits" ELSE "ok"]
    /\ UNCHANGED <<store, clone, disk, store_lock, validated>>
    /\ UNCHANGED <<cacheVars, lockVars, reconVars, pubVars, moreVars>>

\* What commit writes into a document: the serialization of the Store's
\* value of it.
commit_text_FromSource(self, doc) ==
    IF doc = "audits" THEN self.audits_src
    ELSE IF doc = "config" THEN self.config_src
    ELSE self.imports_src

commit_text(self, doc) ==
    IF doc = "audits" THEN store_audits(self.audits)
    ELSE IF doc = "config" THEN store_config(self.config)
    ELSE store_imports(self.imports)

\* The statements of commit's body, each ending in `?`:
\*   lock.write_audits()   File::create: audits.toml is truncated
\*   lock.write_config()   rewind, set_len(0): config.toml is truncated
\*   lock.write_imports()  File::create: imports.lock is truncated
\*   audits.write_all(store_audits(self.audits)?.as_bytes())
\*   config.write_all(store_config(self.config)?.as_bytes())
\*   imports.write_all(store_imports(self.imports)?.as_bytes())
\* A failing open leaves the file as it was; a failing write_all leaves it
\* empty or with a part of the text.
CommitStep ==
    LET self == IF commit_pc.who = "store" THEN store ELSE clone
        pc == commit_pc.pc
        Goes(next) == commit_pc' = [commit_pc EXCEPT !.pc = next]
        PartText == [value |-> <<>>, layout |-> "part"]
    IN /\ pc \in {"write_audits", "write_config", "write_imports",
                  "audits", "config", "imports"}
       /\ \E io_ok \in BOOLEAN :
            IF ~io_ok
            THEN /\ Goes("err")
                 /\ \E left \in {EmptyText, PartText} :
                      disk' = IF pc = "audits" THEN [disk EXCEPT !.audits = left]
                              ELSE IF pc = "config" THEN [disk EXCEPT !.config = left]
                              ELSE IF pc = "imports" THEN [disk EXCEPT !.imports = left]
                              ELSE disk
            ELSE IF pc = "write_audits"
                 THEN Goes("write_config") /\ disk' = [disk EXCEPT !.audits = EmptyText]
            ELSE IF pc = "write_config"
                 THEN Goes("write_imports") /\ disk' = [disk EXCEPT !.config = EmptyText]
            ELSE IF pc = "write_imports"
                 THEN Goes("audits") /\ disk' = [disk EXCEPT !.imports = EmptyText]
            ELSE IF pc = "audits"
                 THEN Goes("config")
                      /\ disk' = [disk EXCEPT !.audits = commit_text(self, "audits")]
            ELSE IF pc = "config"
                 THEN Goes("imports")
                      /\ disk' = [disk EXCEPT !.config = commit_text(self, "config")]
            ELSE Goes("ok")
                 /\ disk' = [disk EXCEPT !.imports = commit_text(self, "imports")]
       /\ UNCHANGED <<store, clone, store_lock, validated>>
       /\ UNCHANGED <<cacheVars, lockVars, reconVars, pubVars, moreVars>>

\* commit returns Ok(()) or the error: self has been consumed, and its lock,
\* if it had one, is dropped.
CommitReturns ==
    LET self == IF commit_pc.who = "store" THEN store ELSE clone
    IN /\ commit_pc.pc \in {"ok", "err"}
       /\ store_lock' = IF self.lock THEN "free" ELSE store_lock
       /\ IF commit_pc.who = "store"
          THEN store' = NoStore /\ UNCHANGED clone
          ELSE clone' = NoStore /\ UNCHANGED store
       /\ commit_pc' = [who |-> "none", pc |-> "none"]
       /\ UNCHANGED <<disk, validated>>
       /\ UNCHANGED <<cacheVars, lockVars, reconVars, pubVars, moreVars>>

StoreNext ==
    \/ Validate \/ AcquireReturns \/ Edit \/ CloneForSuggest
    \/ CommitBegin \/ CommitStep \/ CommitReturns
(***************************************************************************)
(* Cache::get_publishers on the contents of the publisher cache             *)
(* (specification SpecPublishers).  Times are in hours; an Option is <<>>   *)
(* (None) or <<value>> (Some).                                              *)
(***************************************************************************)
NONINDEX_VERSION_PUBLISHER_REFRESH_DAYS == 1

\* The first block of get_publishers, with a cache entry `published`: the
\* cached versions are returned when no wanted version is missing from them,
\* or when the entry was fetched less than a day ago, the index knows the
\* crate and has none of the missing versions (exact_version(..).is_none()).
CachedSuffices_AnyAge(published, versions, now, index_crate) ==
    LET missing_versions ==
            {v \in versions : \A i \in DOMAIN published.versions :
                                  published.versions[i].num # v}
    IN \/ missing_versions = {}
       \/ /\ index_crate # <<>>
          /\ \A v \in missing_versions : v \notin index_crate[1]

CachedSuffices(published, versions, now, index_crate) ==
    LET missing_versions ==
            {v \in versions : \A i \in DOMAIN published.versions :
                                  published.versions[i].num # v}
    IN \/ missing_versions = {}
       \/ /\ now - published.last_fetched < NONINDEX_VERSION_PUBLISHER_REFRESH_DAYS * 24
          /\ index_crate # <<>>
          /\ \A v \in missing_versions : v \notin index_crate[1]

\* The last block of get_publishers: every published_by user of the response
\* is inserted into users (a later version's record replaces an earlier one),
\* the versions keep the user's id, and the crate's entry is replaced, with
\* last_fetched = now.
RecordPublishers_KeepLastFetched(cache, name, now, api_versions) ==
    LET with_user == {i \in DOMAIN api_versions : api_versions[i].published_by # <<>>}
        ids == {api_versions[i].published_by[1].id : i \in with_user}
        last(id) == CHOOSE i \in with_user :
                        /\ api_versions[i].published_by[1].id = id
                        /\ \A j \in with_user :
                             api_versions[j].published_by[1].id = id => j <= i
        versions == [i \in DOMAIN api_versions |->
                        [num |-> api_versions[i].num,
                         published_by |->
                             IF i \in with_user
                             THEN <<api_versions[i].published_by[1].id>> ELSE <<>>]]
        unchanged == name \in DOMAIN cache.crates /\ cache.crates[name].versions = versions
    IN [users |-> [id \in DOMAIN cache.users \cup ids |->
                      IF id \in ids
                      THEN [login |-> api_versions[last(id)].published_by[1].login,
                            name |-> api_versions[last(id)].published_by[1].name]
                      ELSE cache.users[id]],
        crates |-> [k \in DOMAIN cache.crates \cup {name} |->
                       IF k = name /\ ~unchanged
                       THEN [last_fetched |-> now, versions |-> versions]
                       ELSE cache.crates[k]],
        versions |-> versions]

RecordPublishers(cache, name, now, api_versions) ==
    LET with_user == {i \in DOMAIN api_versions : api_versions[i].published_by # <<>>}
        ids == {api_versions[i].published_by[1].id : i \in with_user}
        last(id) == CHOOSE i \in with_user :
                        /\ api_versions[i].published_by[1].id = id
                        /\ \A j \in with_user :
                             api_versions[j].published_by[1].id = id => j <= i
        versions == [i \in DOMAIN api_versions |->
                        [num |-> api_versions[i].num,
                         published_by |->
                             IF i \in with_user
                             THEN <<api_versions[i].published_by[1].id>> ELSE <<>>]]
    IN [users |-> [id \in DOMAIN cache.users \cup ids |->
                      IF id \in ids
                      THEN [login |-> api_versions[last(id)].published_by[1].login,
                            name |-> api_versions[last(id)].published_by[1].name]
                      ELSE cache.users[id]],
        crates |-> [k \in DOMAIN cache.crates \cup {name} |->
                       IF k = name
                       THEN [last_fetched |-> now, versions |-> versions]
                       ELSE cache.crates[k]],
        versions |-> versions]

\* The publisher caches the model starts from: with and without an entry for
\* libx (fetched long ago, exactly a day ago, 23 hours ago), always with one
\* for liby, with and without a known user.
PubInit ==
    LET User7 == 7 :> [login |-> "old-login", name |-> "A Name"]
        Published(id) == [num |-> 1, published_by |-> id]
        VersionLists == {<<>>, <<Published(<<7>>)>>,
                         <<Published(<<7>>), [num |-> 2, published_by |-> <<>>]>>}
        Liby == "liby" :> [last_fetched |-> 0, versions |-> <<Published(<<>>)>>]
    IN /\ \E users \in {[id \in {} |-> <<>>], User7},
             crates \in {Liby}
                        \cup {("libx" :> [last_fetched |-> t, versions |-> vs]) @@ Liby :
                                t \in {0, 76, 77}, vs \in VersionLists} :
            pub_cache = [crates |-> crates, users |-> users]
       /\ pub_call = [pc |-> "idle"]

PubIdle ==
    /\ pub_cache = NotInUse
    /\ pub_call = NotInUse

\* get_publishers(network, name, versions) up to the end of its first block:
\* now is read, the cache entry is looked up, and with a sufficient entry
\* its versions are returned; otherwise the request is to be made.
GetPublishers ==
    /\ pub_call.pc = "idle"
    /\ \E name \in {"libx"}, versions \in SUBSET {1, 2, 3},
          index_crate \in {<<>>, <<{}>>, <<{1}>>, <<{3}>>, <<{1, 2, 3}>>} :
         LET now == 100
             cached == /\ name \in DOMAIN pub_cache.crates
                       /\ CachedSuffices(pub_cache.crates[name], versions, now,
                                         index_crate)
         IN pub_call' = [pc |-> IF cached THEN "done" ELSE "http",
                         name |-> name, versions |-> versions, now |-> now,
                         index_crate |-> index_crate, before |-> pub_cache,
                         http |-> FALSE, response |-> <<>>,
                         result |-> IF cached
                                    THEN Ok(pub_cache.crates[name].versions)
                                    ELSE NoResult]
    /\ UNCHANGED pub_cache
    /\ UNCHANGED <<cacheVars, lockVars, reconVars, storeVars, moreVars>>

\* block_on(network.download(url))?, load_json::<CratesAPICrate>(..)?, then
\* the caches are updated and the new versions returned.
GetPublishersHttp ==
    /\ pub_call.pc = "http"
    /\ LET ApiUser(id, login) == <<[id |-> id, login |-> login, name |-> "A Name"]>>
           Responses ==
               {<<>>,
                <<[num |-> 1, published_by |-> ApiUser(7, "old-login")]>>,
                <<[num |-> 1, published_by |-> ApiUser(7, "login7")],
                  [num |-> 2, published_by |-> <<>>],
                  [num |-> 3, published_by |-> ApiUser(8, "login8")]>>}
       IN \/ /\ \E e \in {"Download", "Json"} :
                  pub_call' = [pub_call EXCEPT !.pc = "done", !.http = TRUE,
                                               !.result = Err(e)]
             /\ UNCHANGED pub_cache
          \/ \E api_versions \in Responses :
                LET new == RecordPublishers(pub_cache, pub_call.name, pub_call.now,
                                            api_versions)
                IN /\ pub_cache' = [crates |-> new.crates, users |-> new.users]
                   /\ pub_call' = [pub_call EXCEPT !.pc = "done", !.http = TRUE,
                                                   !.response = api_versions,
                                                   !.result = Ok(new.versions)]
    /\ UNCHANGED <<cacheVars, lockVars, reconVars, storeVars, moreVars>>

PubNext == GetPublishers \/ GetPublishersHttp

(***************************************************************************)
(* import_publisher_versions (specification SpecResolver).  A version is    *)
(* a number, a SortedMap a function on its keys, metadata.packages a set    *)
(* of [name, version, is_third_party], where is_third_party is the value    *)
(* of pkg.is_third_party(&config_file.policy).                              *)
(***************************************************************************)
\* The packages with a wildcard audit in audits_file or in a peer of
\* imports_file, or with a publisher block in imports_file.
wildcard_audits_packages(audits_file, imports_file) ==
    DOMAIN audits_file.wildcard_audits
    \cup UNION {DOMAIN imports_file.audits[p].wildcard_audits :
                  p \in DOMAIN imports_file.audits}
    \cup DOMAIN imports_file.publisher

\* The keys of relevant_versions after the first loop: the relevant packages
\* with a third-party package of that name in the build graph.
relevant_keys(metadata, relevant_packages) ==
    {pkg.name : pkg \in {q \in metadata.packages :
                           q.name \in relevant_packages /\ q.is_third_party}}

\* The versions handed to get_publishers for pkg_name: the in-graph
\* third-party versions, the from side of the delta audits in audits_file and
\* in every live import, the exemptions, and the imports.lock publishers.
relevant_versions_NoExemptions(pkg_name, metadata, config, audits_file, imports, live_imports) ==
    LET get(map) == IF pkg_name \in DOMAIN map THEN map[pkg_name] ELSE <<>>
        in_graph == {pkg.version : pkg \in {q \in metadata.packages :
                                       q.name = pkg_name /\ q.is_third_party}}
        audit_lists == {get(audits_file.audits)}
                       \cup {get(live_imports.audits[p].audits) :
                               p \in DOMAIN live_imports.audits}
        from == UNION {{l[i].from : i \in {j \in DOMAIN l : l[j].kind = "delta"}} :
                         l \in audit_lists}
        publishers == {get(imports.publisher)[i].version :
                         i \in DOMAIN get(imports.publisher)}
    IN in_graph \cup from \cup publishers

relevant_versions(pkg_name, metadata, config, audits_file, imports, live_imports) ==
    LET get(map) == IF pkg_name \in DOMAIN map THEN map[pkg_name] ELSE <<>>
        in_graph == {pkg.version : pkg \in {q \in metadata.packages :
                                       q.name = pkg_name /\ q.is_third_party}}
        audit_lists == {get(audits_file.audits)}
                       \cup {get(live_imports.audits[p].audits) :
                               p \in DOMAIN live_imports.audits}
        from == UNION {{l[i].from : i \in {j \in DOMAIN l : l[j].kind = "delta"}} :
                         l \in audit_lists}
        exemptions == {get(config.exemptions)[i].version :
                         i \in DOMAIN get(config.exemptions)}
        publishers == {get(imports.publisher)[i].version :
                         i \in DOMAIN get(imports.publisher)}
    IN in_graph \cup from \cup exemptions \cup publishers

\* The list inserted for pkg_name in the second loop: the versions with a
\* published_by user that the cache knows, in the order returned, fresh
\* unless imports.lock has a publisher of that version for pkg_name.
crates_publishers_AllFresh(publishers, users, imports, pkg_name) ==
    LET kept == SelectSeq(publishers, LAMBDA crates_version :
                    /\ crates_version.published_by # <<>>
                    /\ crates_version.published_by[1] \in DOMAIN users)
    IN [i \in 1..Len(kept) |->
           [version |-> kept[i].num,
            user_id |-> kept[i].published_by[1],
            user_login |-> users[kept[i].published_by[1]].login,
            user_name |-> users[kept[i].published_by[1]].name,
            when |-> kept[i].created_at,
            is_fresh_import |-> TRUE]]

crates_publishers(publishers, users, imports, pkg_name) ==
    LET locked == IF pkg_name \in DOMAIN imports.publisher
                  THEN imports.publisher[pkg_name] ELSE <<>>
        nonfresh_versions == {locked[i].version : i \in DOMAIN locked}
        kept == SelectSeq(publishers, LAMBDA crates_version :
                    /\ crates_version.published_by # <<>>
                    /\ crates_version.published_by[1] \in DOMAIN users)
    IN [i \in 1..Len(kept) |->
           [version |-> kept[i].num,
            user_id |-> kept[i].published_by[1],
            user_login |-> users[kept[i].published_by[1]].login,
            user_name |-> users[kept[i].published_by[1]].name,
            when |-> kept[i].created_at,
            is_fresh_import |-> kept[i].num \notin nonfresh_versions]]

\* The calls the model starts from.  From Store::acquire live_imports comes
\* from process_imported_audits with no publishers and the relevant packages
\* are wildcard_audits_packages(audits, live_imports); from
\* ensure_publisher_versions live_imports is the Store's and the relevant
\* package is the one asked for.
ResolverInit ==
    LET Pkg(n, v, t) == [name |-> n, version |-> v, is_third_party |-> t]
        NoMap == [k \in {} |-> <<>>]
        Delta(f, t) == [kind |-> "delta", from |-> f, to |-> t]
        Full(v) == [kind |-> "full", version |-> v]
        Locked(v) == [version |-> v, user_id |-> 7, user_login |-> "old-login",
                      user_name |-> "A Name", when |-> 11, is_fresh_import |-> FALSE]
        Metadatas == {[packages |-> ps] :
                        ps \in SUBSET {Pkg("libx", 1, TRUE), Pkg("libx", 2, FALSE),
                                       Pkg("liby", 1, TRUE)}}
        AuditsFiles == {[audits |-> a, wildcard_audits |-> w] :
                          a \in {NoMap, "libx" :> <<Delta(3, 1), Full(6)>>},
                          w \in {NoMap, "libx" :> <<"w">>,
                                 ("libx" :> <<"w">>) @@ ("liby" :> <<"w">>)}}
        PeerAudits == {NoMap,
                       "peer" :> [audits |-> "libx" :> <<Delta(4, 1)>>,
                                  wildcard_audits |-> "liby" :> <<"w">>]}
        ConfigFiles == {[exemptions |-> e] :
                          e \in {NoMap, "libx" :> <<[version |-> 5]>>}}
        ImportsLocks == {[publisher |-> p] :
                           p \in {NoMap, "libx" :> <<Locked(1), Locked(2)>>,
                                  "liby" :> <<Locked(1), Locked(2)>>}}
        Users == {[id \in {} |-> <<>>],
                  7 :> [login |-> "login7", name |-> "A Name"]}
        Call(metadata, relevant_packages, config, audits_file, imports,
             live_imports, users) ==
            [pc |-> "lookup", metadata |-> metadata,
             relevant_packages |-> relevant_packages,
             config_file |-> config, audits_file |-> audits_file,
             imports_lock |-> imports, live_imports |-> live_imports,
             before |-> live_imports, users |-> users,
             todo |-> relevant_keys(metadata, relevant_packages),
             calls |-> <<>>, relevant_publishers |-> <<>>, inserted |-> 0,
             result |-> NoResult]
    IN \E metadata \in Metadatas, audits_file \in AuditsFiles,
          peers \in PeerAudits, config \in ConfigFiles,
          imports \in ImportsLocks, users \in Users :
         \/ LET live_imports == [audits |-> peers, publisher |-> NoMap]
            IN resolver = Call(metadata,
                               wildcard_audits_packages(audits_file, live_imports),
                               config, audits_file, imports,
                               live_imports, users)
         \/ \E package \in {"libx", "liby"},
               publisher \in {NoMap, "libx" :> <<Locked(9)>>} :
              resolver = Call(metadata, {package}, config, audits_file,
                              imports,
                              [audits |-> peers, publisher |-> publisher], users)

ResolverIdle == resolver = NotInUse

\* One iteration of the first loop, for any key of relevant_versions (a
\* FastMap): the versions are collected and cache.get_publishers is asked;
\* its error is returned at once, its versions are pushed.  A request made
\* by get_publishers adds the response's users to the cache.
ResolverGetPublishers ==
    /\ resolver.pc = "lookup"
    /\ resolver.todo # {}
    /\ \E pkg_name \in resolver.todo :
         LET versions == relevant_versions(pkg_name, resolver.metadata,
                             resolver.config_file, resolver.audits_file,
                             resolver.imports_lock, resolver.live_imports)
             call == [name |-> pkg_name, versions |-> versions]
             V(num, by) == [num |-> num, published_by |-> by, created_at |-> 20 + num]
             Responses == {<<>>, <<V(1, <<6>>)>>, <<V(1, <<7>>)>>,
                           <<V(1, <<7>>), V(2, <<>>), V(3, <<8>>)>>}
             ids(publishers) ==
                 {publishers[i].published_by[1] :
                    i \in {j \in DOMAIN publishers : publishers[j].published_by # <<>>}}
             with(users, new) ==
                 [id \in DOMAIN users \cup new |->
                     IF id \in new THEN [login |-> "login", name |-> "A Name"]
                     ELSE users[id]]
         IN \/ resolver' = [resolver EXCEPT !.pc = "done",
                                            !.calls = Append(@, call),
                                            !.result = Err("FetchAuditError")]
            \/ \E publishers \in Responses, requested \in BOOLEAN :
                 resolver' = [resolver EXCEPT
                     !.todo = @ \ {pkg_name},
                     !.calls = Append(@, call),
                     !.relevant_publishers = Append(@, <<pkg_name, publishers>>),
                     !.users = IF requested THEN with(@, ids(publishers)) ELSE @]
    /\ UNCHANGED <<cacheVars, lockVars, reconVars, storeVars, pubVars, dirVars, unpackVars, diff_call, drops, lateVars>>

\* The second loop, one pushed package at a time, and the return of Ok(()).
ResolverInsert ==
    /\ resolver.pc = "lookup" => resolver.todo = {}
    /\ resolver.pc \in {"lookup", "insert"}
    /\ IF resolver.inserted < Len(resolver.relevant_publishers)
       THEN LET next == resolver.relevant_publishers[resolver.inserted + 1]
                list == crates_publishers(next[2], resolver.users,
                                          resolver.imports_lock, next[1])
            IN resolver' = [resolver EXCEPT
                   !.pc = "insert",
                   !.inserted = @ + 1,
                   !.live_imports.publisher = (next[1] :> list) @@ @]
       ELSE resolver' = [resolver EXCEPT !.pc = "done", !.result = Ok("unit")]
    /\ UNCHANGED <<cacheVars, lockVars, reconVars, storeVars, pubVars, dirVars, unpackVars, diff_call, drops, lateVars>>

ResolverNext == ResolverGetPublishers \/ ResolverInsert

(***************************************************************************)
(* The cache directory: Cache::gc, Cache::clean and Drop for Cache          *)
(* (specification SpecCacheDir).  A child of the root is a name with what   *)
(* it holds; an entry of cache/ or src/ is named by its components between  *)
(* dots (<<"libx-1", "crate">> is libx-1.crate, <<"", "crate">> is .crate). *)
(***************************************************************************)
CACHE_VET_LOCK == ".vet-lock"
CARGO_OK_BODY == "ok"
CACHE_ALLOWED_FILES ==
    {"diff-cache.toml", "command-history.json", "publisher-cache.json",
     "empty", "src", "cache", ".vet-lock"}

\* The three documents with their paths in the root.
CacheDocuments ==
    <<[field |-> "diff_cache", path |-> "diff-cache.toml"],
      [field |-> "command_history", path |-> "command-history.json"],
      [field |-> "publisher_cache", path |-> "publisher-cache.json"]>>

\* store_diff_cache / store_command_history / store_publisher_cache: the
\* text of a document's value.
store_document(value) == [text |-> value]

\* Path::file_stem and Path::extension of a file name: a name without a dot,
\* or with one leading dot only, is its own stem and has no extension.
file_stem(name) ==
    IF Len(name) = 1 \/ (Len(name) = 2 /\ name[1] = "")
    THEN name ELSE SubSeq(name, 1, Len(name) - 1)

extension(name) ==
    IF Len(name) = 1 \/ (Len(name) = 2 /\ name[1] = "")
    THEN <<>> ELSE <<name[Len(name)]>>

\* should_keep_package: Some(stem) for a name with extension crate whose age
\* is not known (mtime not before now) or at most max_package_age.
should_keep_package_AnyAge(name, age, max_package_age) ==
    IF extension(name) # <<"crate">> THEN <<>>
    ELSE <<file_stem(name)>>

should_keep_package(name, age, max_package_age) ==
    IF extension(name) # <<"crate">> THEN <<>>
    ELSE IF age # <<>> /\ age[1] > max_package_age THEN <<>>
    ELSE <<file_stem(name)>>

\* fetch_is_ok on an entry of src/: read_to_string(<entry>/.cargo-ok) gives
\* exactly the body (a plain file has no .cargo-ok inside).
fetch_is_ok(entry) ==
    entry.kind = "dir" /\ entry.cargo_ok = <<CARGO_OK_BODY>>

\* remove_dir_entry on a child of the root: the directories go with their
\* contents.
RemoveChild(dir, name) ==
    [children |-> [n \in DOMAIN dir.children \ {name} |-> dir.children[n]],
     empty |-> IF name = "empty" THEN {} ELSE dir.empty,
     cache |-> IF name = "cache" THEN <<>> ELSE dir.cache,
     src |-> IF name = "src" THEN <<>> ELSE dir.src]

Without(map, key) == [k \in DOMAIN map \ {key} |-> map[k]]

\* Drop for Cache on the root's children: each document with a path is
\* serialized and written, in turn; failed holds the documents whose
\* serialization or write fails and left what a failed write leaves of the
\* file (fs::write truncates before it writes).
WriteBack_SkipDefault(children, state, failed, left) ==
    LET written == {i \in DOMAIN CacheDocuments :
                      /\ ~state.mock
                      /\ state[CacheDocuments[i].field] # "default"}
        path(i) == CacheDocuments[i].path
        at(n) == CHOOSE i \in written : path(i) = n
    IN [n \in DOMAIN children
               \cup {path(i) : i \in {j \in written : j \notin failed \/ left # "kept"}} |->
           IF \E i \in written : path(i) = n
           THEN IF at(n) \in failed
                THEN IF left = "kept" THEN children[n] ELSE [text |-> left]
                ELSE store_document(state[CacheDocuments[at(n)].field])
           ELSE children[n]]

WriteBack_StopAtFailure(children, state, failed, left) ==
    LET written == {i \in DOMAIN CacheDocuments :
                      /\ ~state.mock
                      /\ \A j \in failed : i <= j}
        path(i) == CacheDocuments[i].path
        at(n) == CHOOSE i \in written : path(i) = n
    IN [n \in DOMAIN children
               \cup {path(i) : i \in {j \in written : j \notin failed \/ left # "kept"}} |->
           IF \E i \in written : path(i) = n
           THEN IF at(n) \in failed
                THEN IF left = "kept" THEN children[n] ELSE [text |-> left]
                ELSE store_document(state[CacheDocuments[at(n)].field])
           ELSE children[n]]

WriteBack(children, state, failed, left) ==
    LET written == {i \in DOMAIN CacheDocuments : ~state.mock}
        path(i) == CacheDocuments[i].path
        at(n) == CHOOSE i \in written : path(i) = n
    IN [n \in DOMAIN children
               \cup {path(i) : i \in {j \in written : j \notin failed \/ left # "kept"}} |->
           IF \E i \in written : path(i) = n
           THEN IF at(n) \in failed
                THEN IF left = "kept" THEN children[n] ELSE [text |-> left]
                ELSE store_document(state[CacheDocuments[at(n)].field])
           ELSE children[n]]

\* The directories the model starts from, as Cache::acquire leaves them
\* (.vet-lock held, empty/, src/ and cache/ created, the documents loaded
\* from their files, or defaults without a file): with many kinds of entries
\* in cache/ and src/, or with many kinds of children of the root; and a
\* mock Cache, which has no root.
DirInit ==
    LET Crate(age) == [age |-> age]
        Dir(cargo_ok) == [kind |-> "dir", cargo_ok |-> cargo_ok]
        Plain == [kind |-> "file", cargo_ok |-> <<>>]
        None == [k \in {} |-> <<>>]
        Made == (CACHE_VET_LOCK :> "file") @@ ("empty" :> "dir")
                @@ ("src" :> "dir") @@ ("cache" :> "dir")
        Libx == <<"libx-1", "crate">>
        Caches == {c1 @@ c2 :
                     c1 \in {None} \cup {Libx :> Crate(a) : a \in {<<4>>, <<5>>, <<6>>, <<>>}},
                     c2 \in {None,
                             (<<"", "crate">> :> Crate(<<1>>))
                               @@ (<<"liby-2", "txt">> :> Crate(<<1>>)),
                             (<<"noext">> :> Crate(<<1>>))
                               @@ (<<"a", "b", "crate">> :> Crate(<<1>>))}}
        Srcs == {s1 @@ s2 @@ s3 :
                   s1 \in {None, <<"libx-1">> :> Plain}
                          \cup {<<"libx-1">> :> Dir(m) : m \in {<<"ok">>, <<"ok\n">>, <<>>}},
                   s2 \in {None, <<"a", "b">> :> Dir(<<"ok">>)},
                   s3 \in {None, <<"gone-1">> :> Dir(<<"ok">>)}}
        Files(v1) == [n \in v1 |-> store_document("v1")]
        Roots == {Made @@ Files(v1) @@ extra :
                    v1 \in {{}, {"diff-cache.toml"},
                            {"diff-cache.toml", "command-history.json",
                             "publisher-cache.json"}},
                    extra \in {None, "junk" :> "file",
                               ("junk" :> "file") @@ ("junk-dir" :> "dir")}}
        Dirs == {[children |-> Made, empty |-> e, cache |-> c, src |-> s] :
                   e \in {{}, {"stray"}}, c \in Caches, s \in Srcs}
                \cup {[children |-> r, empty |-> {"stray"},
                       cache |-> Libx :> Crate(<<6>>),
                       src |-> <<"libx-1">> :> Dir(<<"ok">>)] : r \in Roots}
        loaded(dir, path) == IF path \in DOMAIN dir.children THEN "v1" ELSE "default"
    IN /\ \/ \E dir \in Dirs :
               /\ cache_root = dir
               /\ cache_state = [alive |-> TRUE, mock |-> FALSE,
                                 diff_cache |-> loaded(dir, "diff-cache.toml"),
                                 command_history |-> loaded(dir, "command-history.json"),
                                 publisher_cache |-> loaded(dir, "publisher-cache.json"),
                                 since_clean |-> FALSE, recorded |-> FALSE]
          \/ /\ cache_root = [children |-> None, empty |-> {}, cache |-> None,
                              src |-> None]
             /\ cache_state = [alive |-> TRUE, mock |-> TRUE,
                               diff_cache |-> "default", command_history |-> "default",
                               publisher_cache |-> "default",
                               since_clean |-> FALSE, recorded |-> FALSE]
       /\ cache_call = [pc |-> "idle", op |-> "none"]

DirIdle ==
    /\ cache_root = NotInUse
    /\ cache_state = NotInUse
    /\ cache_call = NotInUse

\* An operation of the Cache changes one of the three documents in memory
\* (a diffstat is cached, the last fetch is set, publishers are recorded).
Record ==
    /\ cache_call.pc = "idle"
    /\ cache_state.alive /\ ~cache_state.recorded
    /\ \E i \in DOMAIN CacheDocuments :
         cache_state' = [cache_state EXCEPT ![CacheDocuments[i].field] = "v2",
                                            !.recorded = TRUE,
                                            !.since_clean = FALSE]
    /\ UNCHANGED <<cache_root, cache_call>>
    /\ UNCHANGED <<cacheVars, lockVars, reconVars, storeVars, pubVars, resolver, unpackVars, diff_call, drops, lateVars>>

\* gc(max_package_age): nothing for a mock Cache; else the three futures of
\* join! start, each with read_dir of its directory.  The entries a loop
\* leaves alone need no step; kept_packages is what the first loop of
\* gc_packages has pushed when it ends.
Gc ==
    /\ cache_call.pc = "idle"
    /\ cache_state.alive
    /\ \E max_package_age \in {0, 5} :
         IF cache_state.mock
         THEN cache_call' = [pc |-> "idle", op |-> "gc", returned |-> "mock"]
         ELSE LET has(n) == n \in DOMAIN cache_root.children
                  keep(n) == should_keep_package(n, cache_root.cache[n].age,
                                                     max_package_age)
                  kept == {n \in DOMAIN cache_root.cache : keep(n) # <<>>}
              IN cache_call' =
                   [pc |-> "gc", op |-> "gc", max_package_age |-> max_package_age,
                    root |-> [rv |-> "run",
                              todo |-> DOMAIN cache_root.children \ CACHE_ALLOWED_FILES],
                    empty |-> IF has("empty")
                              THEN [rv |-> "run", todo |-> cache_root.empty]
                              ELSE [rv |-> "err", todo |-> {}],
                    packages |-> IF has("cache")
                                 THEN [rv |-> "run", dir |-> "cache",
                                       todo |-> DOMAIN cache_root.cache \ kept,
                                       kept_packages |-> {keep(n)[1] : n \in kept}]
                                 ELSE [rv |-> "err", dir |-> "cache", todo |-> {},
                                       kept_packages |-> {}]]
    /\ cache_state' = [cache_state EXCEPT !.since_clean = FALSE]
    /\ UNCHANGED cache_root
    /\ UNCHANGED <<cacheVars, lockVars, reconVars, storeVars, pubVars, resolver, unpackVars, diff_call, drops, lateVars>>

\* gc_root: remove_dir_entry on an entry that is not in CACHE_ALLOWED_FILES
\* (its error ends gc_root), Ok(()) after the last entry.
GcRoot ==
    /\ cache_call.pc = "gc"
    /\ cache_call.root.rv = "run"
    /\ IF cache_call.root.todo = {}
       THEN /\ cache_call' = [cache_call EXCEPT !.root.rv = "ok"]
            /\ UNCHANGED cache_root
       ELSE \E entry \in cache_call.root.todo :
              \/ /\ cache_root' = RemoveChild(cache_root, entry)
                 /\ cache_call' = [cache_call EXCEPT !.root.todo = @ \ {entry}]
              \/ /\ cache_call' = [cache_call EXCEPT !.root.rv = "err"]
                 /\ UNCHANGED cache_root
    /\ UNCHANGED cache_state
    /\ UNCHANGED <<cacheVars, lockVars, reconVars, storeVars, pubVars, resolver, unpackVars, diff_call, drops, lateVars>>

\* gc_empty: every entry of empty/ is removed.
GcEmpty ==
    /\ cache_call.pc = "gc"
    /\ cache_call.empty.rv = "run"
    /\ IF cache_call.empty.todo = {}
       THEN /\ cache_call' = [cache_call EXCEPT !.empty.rv = "ok"]
            /\ UNCHANGED cache_root
       ELSE \E entry \in cache_call.empty.todo :
              \/ /\ cache_root' = [cache_root EXCEPT !.empty = @ \ {entry}]
                 /\ cache_call' = [cache_call EXCEPT !.empty.todo = @ \ {entry}]
              \/ /\ cache_call' = [cache_call EXCEPT !.empty.rv = "err"]
                 /\ UNCHANGED cache_root
    /\ UNCHANGED cache_state
    /\ UNCHANGED <<cacheVars, lockVars, reconVars, storeVars, pubVars, resolver, unpackVars, diff_call, drops, lateVars>>

\* gc_packages: the entries of cache/ that should_keep_package refuses are
\* removed, then (read_dir of src/) the entries of src/ whose name is not in
\* kept_packages or whose marker is not valid.
GcPackages ==
    /\ cache_call.pc = "gc"
    /\ cache_call.packages.rv = "run"
    /\ LET packages == cache_call.packages
           doomed == {n \in DOMAIN cache_root.src :
                        \/ n \notin packages.kept_packages
                        \/ ~fetch_is_ok(cache_root.src[n])}
       IN IF packages.todo # {}
          THEN \E entry \in packages.todo :
                 \/ /\ cache_root' =
                         [cache_root EXCEPT ![packages.dir] = Without(@, entry)]
                    /\ cache_call' = [cache_call EXCEPT !.packages.todo = @ \ {entry}]
                 \/ /\ cache_call' = [cache_call EXCEPT !.packages.rv = "err"]
                    /\ UNCHANGED cache_root
          ELSE /\ UNCHANGED cache_root
               /\ cache_call' =
                    IF packages.dir = "src"
                    THEN [cache_call EXCEPT !.packages.rv = "ok"]
                    ELSE IF "src" \in DOMAIN cache_root.children
                    THEN [cache_call EXCEPT !.packages.dir = "src",
                                            !.packages.todo = doomed]
                    ELSE [cache_call EXCEPT !.packages.rv = "err"]
    /\ UNCHANGED cache_state
    /\ UNCHANGED <<cacheVars, lockVars, reconVars, storeVars, pubVars, resolver, unpackVars, diff_call, drops, lateVars>>

\* join! is complete: the errors are logged and gc returns.
GcReturns ==
    /\ cache_call.pc = "gc"
    /\ \A f \in {"root", "empty", "packages"} : cache_call[f].rv # "run"
    /\ cache_call' = [pc |-> "idle", op |-> "gc",
                      returned |-> IF \A f \in {"root", "empty", "packages"} :
                                        cache_call[f].rv = "ok"
                                   THEN "ok" ELSE "logged",
                      max_package_age |-> cache_call.max_package_age]
    /\ UNCHANGED <<cache_root, cache_state>>
    /\ UNCHANGED <<cacheVars, lockVars, reconVars, storeVars, pubVars, resolver, unpackVars, diff_call, drops, lateVars>>

\* clean(): the three documents are reset in memory, then read_dir(root);
\* every entry but .vet-lock is to be removed.
Clean ==
    /\ cache_call.pc = "idle"
    /\ cache_state.alive /\ ~cache_state.mock
    /\ cache_state' = [cache_state EXCEPT !.diff_cache = "default",
                                          !.command_history = "default",
                                          !.publisher_cache = "default",
                                          !.since_clean = FALSE]
    /\ cache_call' = [pc |-> "clean", op |-> "clean",
                      todo |-> DOMAIN cache_root.children \ {CACHE_VET_LOCK}]
    /\ UNCHANGED cache_root
    /\ UNCHANGED <<cacheVars, lockVars, reconVars, storeVars, pubVars, resolver, unpackVars, diff_call, drops, lateVars>>

\* One remove_dir_entry of clean's loop (its error is returned), or Ok(())
\* after the last entry.
CleanRemove ==
    /\ cache_call.pc = "clean"
    /\ IF cache_call.todo = {}
       THEN /\ cache_call' = [pc |-> "idle", op |-> "clean", returned |-> "ok"]
            /\ cache_state' = [cache_state EXCEPT !.since_clean = TRUE]
            /\ UNCHANGED cache_root
       ELSE \E entry \in cache_call.todo :
              \/ /\ cache_root' = RemoveChild(cache_root, entry)
                 /\ cache_call' = [cache_call EXCEPT !.todo = @ \ {entry}]
                 /\ UNCHANGED cache_state
              \/ /\ cache_call' = [pc |-> "idle", op |-> "clean", returned |-> "err"]
                 /\ UNCHANGED <<cache_root, cache_state>>
    /\ UNCHANGED <<cacheVars, lockVars, reconVars, storeVars, pubVars, resolver, unpackVars, diff_call, drops, lateVars>>

\* The Cache is dropped: the documents are written back, each on its own,
\* errors are logged, and the lock is released.
DropForCache ==
    /\ cache_call.pc = "idle"
    /\ cache_state.alive
    /\ \E failed \in SUBSET DOMAIN CacheDocuments, left \in {"kept", "", "part"} :
         /\ failed = {} => left = "kept"
         /\ cache_root' = [cache_root EXCEPT
                !.children = WriteBack(@, cache_state, failed, left)]
         /\ cache_call' = [pc |-> "dropped", op |-> "drop", failed |-> failed,
                           left |-> left, before |-> cache_root.children,
                           state |-> cache_state]
    /\ cache_state' = [cache_state EXCEPT !.alive = FALSE,
                                          !.diff_cache = "default",
                                          !.command_history = "default",
                                          !.publisher_cache = "default"]
    /\ UNCHANGED <<cacheVars, lockVars, reconVars, storeVars, pubVars, resolver, unpackVars, diff_call, drops, lateVars>>

DirNext ==
    \/ Record \/ Gc \/ GcRoot \/ GcEmpty \/ GcPackages \/ GcReturns
    \/ Clean \/ CleanRemove \/ DropForCache

(***************************************************************************)
(* The initializer of Cache::fetch_package with unpack_package,             *)
(* unpack_checkout and create_unpack_lock (specification SpecUnpack).  A    *)
(* path is the sequence of its components, the contents of a file the       *)
(* sequence of its bytes, a directory a function from the paths below it    *)
(* to contents, an Option <<>> or <<value>>.                                *)
(***************************************************************************)
CARGO_OK_FILE == ".cargo-ok"
DIFF_SKIP_PATHS == {"Cargo.lock", ".cargo_vcs_info.json", ".cargo-ok"}

\* The bytes of CARGO_OK_BODY.
OkBytes == <<"o", "k">>

\* fetch_is_ok on a directory that may not exist: read_to_string of its
\* .cargo-ok is exactly the body.
marker_is_ok(dir) ==
    /\ dir # <<>>
    /\ <<CARGO_OK_FILE>> \in DOMAIN dir[1]
    /\ dir[1][<<CARGO_OK_FILE>>] = OkBytes

\* A way for an unpack to go: no failure, or the step that fails (and for
\* the archive's loop the entry at which it does).
NoFailure == [at |-> "none", i |-> 0]
Fails(at) == [at |-> at, i |-> 0]

\* create_unpack_lock: the file is opened with create, read and write (it is
\* not truncated), "ok" is written at its start, and it is synced.
create_unpack_lock(files, fail) ==
    LET lockfile == <<CARGO_OK_FILE>>
        old == IF lockfile \in DOMAIN files THEN files[lockfile] ELSE <<>>
        with(bytes) == [p \in DOMAIN files \cup {lockfile} |->
                           IF p = lockfile THEN bytes ELSE files[p]]
    IN IF fail.at = "lock_open" THEN [ok |-> FALSE, files |-> files]
       ELSE IF fail.at = "lock_write" THEN [ok |-> FALSE, files |-> with(old)]
       ELSE [ok |-> fail.at # "lock_sync",
             files |-> with(OkBytes \o SubSeq(old, Len(OkBytes) + 1, Len(old)))]

\* Path::starts_with, by whole components; the prefix is one component.
starts_with_NonEmpty(path, prefix) == Len(path) >= 1

starts_with(path, prefix) == Len(path) >= 1 /\ path[1] = prefix

\* Entry::unpack_in(parent) of the tar library: an entry with a ..
\* component is skipped; any other is written below parent, that is into the
\* directory named by its first component.
unpack_in(entry, prefix, files, outside) ==
    IF \E i \in DOMAIN entry.path : entry.path[i] = ".."
    THEN [files |-> files, outside |-> outside]
    ELSE IF entry.path[1] # prefix
    THEN [files |-> files, outside |-> outside \cup {entry.path}]
    ELSE IF Len(entry.path) = 1 THEN [files |-> files, outside |-> outside]
    ELSE [files |-> (Tail(entry.path) :> entry.bytes) @@ files,
          outside |-> outside]

\* The loop of unpack_package over the entries from the i-th on, then
\* create_unpack_lock.  Reading an entry or its path may fail before the
\* prefix is checked, unpack_in after it.
RECURSIVE unpack_entries(_, _, _, _, _, _)
unpack_entries(tarball, i, prefix, files, outside, fail) ==
    IF i > Len(tarball)
    THEN LET lock == create_unpack_lock(files, fail)
         IN [result |-> IF lock.ok THEN Ok("unit") ELSE Err([kind |-> "LockCreate"]),
             dir |-> <<lock.files>>, outside |-> outside]
    ELSE IF fail.at = "iterate" /\ fail.i = i
    THEN [result |-> Err([kind |-> "ArchiveIterate"]), dir |-> <<files>>,
          outside |-> outside]
    ELSE IF ~starts_with(tarball[i].path, prefix)
    THEN [result |-> Err([kind |-> "InvalidPaths", entry_path |-> tarball[i].path,
                          prefix |-> prefix]),
          dir |-> <<files>>, outside |-> outside]
    ELSE IF fail.at = "entry" /\ fail.i = i
    THEN [result |-> Err([kind |-> "Unpack"]), dir |-> <<files>>, outside |-> outside]
    ELSE LET done == unpack_in(tarball[i], prefix, files, outside)
         IN unpack_entries(tarball, i + 1, prefix, done.files, done.outside, fail)

\* unpack_package(tarball, unpack_dir): an existing directory is removed,
\* the directory is created, the entries are unpacked in order, the marker
\* is written.
unpack_package(tarball, prefix, dir, outside, fail) ==
    LET NoFiles == [p \in {} |-> <<>>]
    IN IF dir # <<>> /\ fail.at = "remove_dir_all"
       THEN [result |-> Err([kind |-> "Io"]), dir |-> dir, outside |-> outside]
       ELSE IF fail.at = "create_dir"
       THEN [result |-> Err([kind |-> "Io"]), dir |-> <<>>, outside |-> outside]
       ELSE unpack_entries(tarball, 1, prefix, NoFiles, outside, fail)

\* unpack_checkout(checkout_path, unpack_path): `cargo package --list` names
\* the files; the directory is created if it is missing; every listed file
\* but the skipped ones is copied (Cargo.toml.orig from Cargo.toml, a file
\* that is not found is passed over); the marker is written.  copied is the
\* set of listed files whose copy was made when a copy fails.
unpack_checkout(listed, checkout, dir, copied, fail) ==
    LET NoFiles == [p \in {} |-> <<>>]
        before == IF dir = <<>> THEN NoFiles ELSE dir[1]
        from(target) == IF target = "Cargo.toml.orig" THEN "Cargo.toml" ELSE target
        wanted == {t \in listed : t \notin DIFF_SKIP_PATHS /\ from(t) \in DOMAIN checkout}
        copy(ts) == [p \in DOMAIN before \cup {<<t>> : t \in ts} |->
                        IF \E t \in ts : p = <<t>> THEN checkout[from(p[1])]
                        ELSE before[p]]
    IN IF fail.at = "command"
       THEN [result |-> Err([kind |-> "Command"]), dir |-> dir]
       ELSE IF fail.at = "create_dir"
       THEN [result |-> Err([kind |-> "CreateDirError"]), dir |-> dir]
       ELSE IF fail.at = "copy"
       THEN [result |-> Err([kind |-> "CopyError"]), dir |-> <<copy(wanted \cap copied)>>]
       ELSE LET lock == create_unpack_lock(copy(wanted), fail)
            IN [result |-> IF lock.ok THEN Ok("unit") ELSE Err([kind |-> "LockCreate"]),
                dir |-> <<lock.files>>]

\* Where the initializer gets a registry version from: the host registry's
\* validly marked directory, else the cached .crate if File::open finds it,
\* else nothing without a network (Frozen), else a download.
registry_source_NetworkFirst(host, crate, has_network) ==
    IF marker_is_ok(host) THEN "registry"
    ELSE IF ~has_network THEN "frozen"
    ELSE IF crate # <<>> THEN "cached"
    ELSE "download"

registry_source(host, crate, has_network) ==
    IF marker_is_ok(host) THEN "registry"
    ELSE IF crate # <<>> THEN "cached"
    ELSE IF ~has_network THEN "frozen"
    ELSE "download"

\* The package versions the model starts from: libx 1 from the registry,
\* with or without a cached libx-1.crate (of many archives), a directory
\* src/libx-1 (valid, or left by a failed attempt) and a directory in the
\* host registry; or libx 1 of a git revision, with or without a checkout
\* in the build graph and a directory left in src/.
UnpackInit ==
    LET File(path, bytes) == [path |-> path, bytes |-> bytes]
        Entries == {File(<<"libx-1", "lib.rs">>, <<"a">>),
                    File(<<"libx-1", ".cargo-ok">>, <<"n", "o", "!">>),
                    File(<<"libx-1", ".cargo-ok">>, <<"x">>),
                    File(<<"libx-1", ".cargo-ok">>, OkBytes),
                    File(<<"..", "evil">>, <<"e">>),
                    File(<<"liby-2", "lib.rs">>, <<"e">>),
                    File(<<"libx-1", "..", "..", "evil">>, <<"e">>)}
        Archives == UNION {[1..n -> Entries] : n \in 0..2}
                    \cup {<<File(<<"libx-1">>, <<>>), File(<<"libx-1", "lib.rs">>, <<"a">>),
                            File(<<"liby-2", "lib.rs">>, <<"e">>)>>}
        NoFiles == [p \in {} |-> <<>>]
        Valid == (<<"lib.rs">> :> <<"b">>) @@ (<<".cargo-ok">> :> OkBytes)
        Dirs == {<<>>, <<Valid>>, <<<<"lib.rs">> :> <<"b">>>>,
                 <<(<<"old.rs">> :> <<"b">>) @@ (<<".cargo-ok">> :> <<"o">>)>>}
        Hosts == {<<>>, <<Valid>>, <<<<"lib.rs">> :> <<"b">>>>}
        Checkouts == {<<>>,
                      <<("Cargo.toml" :> <<"t">>) @@ ("lib.rs" :> <<"a">>)>>,
                      <<("Cargo.toml" :> <<"t">>) @@ (".cargo-ok" :> <<"n", "o", "!">>)>>}
        Listed == {"Cargo.toml", "Cargo.toml.orig", "Cargo.lock", "lib.rs",
                   ".cargo-ok", "generated.rs"}
        Call(git, has_network, remote, checkout, files) ==
            [pc |-> "start", run |-> 1, git |-> git, network |-> has_network,
             remote |-> remote, checkout |-> checkout, listed |-> Listed,
             before |-> files, file |-> <<>>, touched |-> "no",
             downloaded |-> FALSE, unpacked |-> "no", result |-> NoResult,
             fail |-> NoFailure, previous |-> NoResult]
    IN \E dir \in Dirs, has_network \in BOOLEAN :
         \/ \E host \in Hosts, archive \in Archives, cached \in BOOLEAN :
              /\ pkg_files = [crate |-> IF cached
                                        THEN <<[mtime |-> "old", archive |-> archive]>>
                                        ELSE <<>>,
                              src |-> dir, host |-> host, outside |-> {}]
              /\ pkg_call = Call(FALSE, has_network, archive, <<>>, pkg_files)
         \/ \E checkout \in Checkouts :
              /\ pkg_files = [crate |-> <<>>, src |-> dir, host |-> <<>>,
                              outside |-> {}]
              /\ pkg_call = Call(TRUE, has_network, <<>>, checkout, pkg_files)

UnpackIdle ==
    /\ pkg_files = NotInUse
    /\ pkg_call = NotInUse

\* The initializer up to the opened archive.  A git revision: the repacked
\* directory if its marker is valid, else the checkout of the build graph
\* or UnknownGitRevision.  A registry version: the host registry's
\* directory if its marker is valid; else the cached .crate, whose times
\* are set to now (a failure is only logged); else Frozen without a
\* network.
FetchPackage ==
    /\ pkg_call.pc = "start"
    /\ IF pkg_call.git
       THEN /\ pkg_call' =
                 IF marker_is_ok(pkg_files.src)
                 THEN [pkg_call EXCEPT !.pc = "done", !.result = Ok("src")]
                 ELSE IF pkg_call.checkout = <<>>
                 THEN [pkg_call EXCEPT !.pc = "done",
                                       !.result = Err([kind |-> "UnknownGitRevision"])]
                 ELSE [pkg_call EXCEPT !.pc = "checkout"]
            /\ UNCHANGED pkg_files
       ELSE LET source == registry_source(pkg_files.host, pkg_files.crate,
                                          pkg_call.network)
            IN IF source = "registry"
               THEN /\ pkg_call' = [pkg_call EXCEPT !.pc = "done",
                                                    !.result = Ok("registry")]
                    /\ UNCHANGED pkg_files
               ELSE IF source = "cached"
               THEN \E set_times \in BOOLEAN :
                      /\ pkg_files' = [pkg_files EXCEPT
                             !.crate[1].mtime = IF set_times THEN "now" ELSE @]
                      /\ pkg_call' = [pkg_call EXCEPT
                             !.pc = "unpack",
                             !.file = <<pkg_files.crate[1].archive>>,
                             !.touched = IF set_times THEN "ok" ELSE "failed"]
               ELSE IF source = "frozen"
               THEN /\ pkg_call' = [pkg_call EXCEPT !.pc = "done",
                                                    !.result = Err([kind |-> "Frozen"])]
                    /\ UNCHANGED pkg_files
               ELSE /\ pkg_call' = [pkg_call EXCEPT !.pc = "download"]
                    /\ UNCHANGED pkg_files
    /\ UNCHANGED <<cacheVars, lockVars, reconVars, storeVars, pubVars, resolver, dirVars, diff_call, drops, lateVars>>

\* network.download_and_persist(url, &fetched_package).await?, then
\* File::open of the persisted archive.
Download ==
    /\ pkg_call.pc = "download"
    /\ \/ /\ pkg_call' = [pkg_call EXCEPT !.pc = "done", !.downloaded = TRUE,
                                          !.result = Err([kind |-> "Download"])]
          /\ UNCHANGED pkg_files
       \/ /\ pkg_files' = [pkg_files EXCEPT
                !.crate = <<[mtime |-> "now", archive |-> pkg_call.remote]>>]
          /\ \/ pkg_call' = [pkg_call EXCEPT !.pc = "unpack", !.downloaded = TRUE,
                                             !.file = <<pkg_call.remote>>]
             \/ pkg_call' = [pkg_call EXCEPT !.pc = "done", !.downloaded = TRUE,
                                             !.result = Err([kind |-> "OpenCached"])]
    /\ UNCHANGED <<cacheVars, lockVars, reconVars, storeVars, pubVars, resolver, dirVars, diff_call, drops, lateVars>>

\* The end of the initializer for a registry version: the directory in src/
\* if its marker is valid, else unpack_package of the opened archive.
Unpack ==
    /\ pkg_call.pc = "unpack"
    /\ IF marker_is_ok(pkg_files.src)
       THEN /\ pkg_call' = [pkg_call EXCEPT !.pc = "done", !.result = Ok("src")]
            /\ UNCHANGED pkg_files
       ELSE LET tarball == pkg_call.file[1]
                Failures == {NoFailure} \cup {[at |-> at, i |-> k] : at \in {"iterate", "entry"},
                                                       k \in DOMAIN tarball}
                            \cup {Fails(at) : at \in {"remove_dir_all", "create_dir",
                                                       "lock_open", "lock_write",
                                                       "lock_sync"}}
            IN \E fail \in Failures :
                 LET done == unpack_package(tarball, "libx-1", pkg_files.src,
                                            pkg_files.outside, fail)
                 IN /\ pkg_files' = [pkg_files EXCEPT !.src = done.dir,
                                                      !.outside = done.outside]
                    /\ pkg_call' = [pkg_call EXCEPT
                           !.pc = "done", !.unpacked = "package", !.fail = fail,
                           !.result = IF done.result.st = "ok" THEN Ok("src")
                                      ELSE done.result]
    /\ UNCHANGED <<cacheVars, lockVars, reconVars, storeVars, pubVars, resolver, dirVars, diff_call, drops, lateVars>>

\* The end of the initializer for a git revision: unpack_checkout.
UnpackCheckout ==
    /\ pkg_call.pc = "checkout"
    /\ \E at \in {"none", "command", "create_dir", "copy", "lock_open",
                  "lock_write", "lock_sync"},
          copied \in {{}, {"lib.rs"}, {"Cargo.toml", "Cargo.toml.orig"}} :
         /\ at # "copy" => copied = {}
         /\ LET done == unpack_checkout(pkg_call.listed, pkg_call.checkout[1],
                                        pkg_files.src, copied, Fails(at))
            IN /\ pkg_files' = [pkg_files EXCEPT !.src = done.dir]
               /\ pkg_call' = [pkg_call EXCEPT
                      !.pc = "done", !.unpacked = "checkout", !.fail = Fails(at),
                      !.result = IF done.result.st = "ok" THEN Ok("src")
                                 ELSE done.result]
    /\ UNCHANGED <<cacheVars, lockVars, reconVars, storeVars, pubVars, resolver, dirVars, diff_call, drops, lateVars>>

\* The next run of the tool fetches the same version again, with or without
\* a network, on what the previous run left on disk.
NextRun ==
    /\ pkg_call.pc = "done"
    /\ pkg_call.run < 2
    /\ \E has_network \in BOOLEAN :
         pkg_call' = [pkg_call EXCEPT
             !.pc = "start", !.run = @ + 1, !.network = has_network,
             !.before = pkg_files, !.file = <<>>, !.touched = "no",
             !.downloaded = FALSE, !.unpacked = "no", !.result = NoResult,
             !.fail = NoFailure, !.previous = pkg_call.result]
    /\ pkg_files' = [pkg_files EXCEPT
           !.crate = IF @ = <<>> THEN @ ELSE <<[@[1] EXCEPT !.mtime = "old"]>>]
    /\ UNCHANGED <<cacheVars, lockVars, reconVars, storeVars, pubVars, resolver, dirVars, diff_call, drops, lateVars>>

UnpackNext == FetchPackage \/ Download \/ Unpack \/ UnpackCheckout \/ NextRun

(***************************************************************************)
(* Cache::diffstat_package (specification SpecDiffstat).  The output of     *)
(* `git diff --no-index --numstat -z` is the sequence of its chunks between *)
(* NUL bytes; the chunk with the counts is a sequence of characters, a path *)
(* the sequence of its components.                                          *)
(***************************************************************************)
CARGO_TOML_FILE == "Cargo.toml"
DevNull == <<"/dev/null">>
Whitespace == {"\t", " ", "\n"}
DigitChars == <<"0", "1", "2", "3", "4", "5", "6", "7", "8", "9">>

\* str::trim: without the whitespace at both ends.
RECURSIVE trim(_)
trim(s) ==
    IF s # <<>> /\ Head(s) \in Whitespace THEN trim(Tail(s))
    ELSE IF s # <<>> /\ s[Len(s)] \in Whitespace THEN trim(SubSeq(s, 1, Len(s) - 1))
    ELSE s

\* str::split_once at the first occurrence of the delimiter: Some((before,
\* after)) or None.
split_once(s, delimiter) ==
    LET hits == {i \in DOMAIN s : s[i] = delimiter}
    IN IF hits = {} THEN <<>>
       ELSE LET at == CHOOSE i \in hits : \A j \in hits : i <= j
            IN <<<<SubSeq(s, 1, at - 1), SubSeq(s, at + 1, Len(s))>>>>

\* str::parse::<u64>: decimal digits after an optional +; Some(value) or
\* None (the counts here stay far below 2^64).
RECURSIVE digits_value(_)
digits_value(s) ==
    IF s = <<>> THEN 0
    ELSE LET last == s[Len(s)]
             d == CHOOSE k \in 0..9 : DigitChars[k + 1] = last
         IN 10 * digits_value(SubSeq(s, 1, Len(s) - 1)) + d
parse_u64(s) ==
    LET body == IF s # <<>> /\ Head(s) = "+" THEN Tail(s) ELSE s
    IN IF body # <<>> /\ \A i \in DOMAIN body : \E k \in 1..10 : DigitChars[k] = body[i]
       THEN <<digits_value(body)>>
       ELSE <<>>

\* Path::strip_prefix: Some(the rest) or None.
strip_prefix(path, base) ==
    IF Len(path) >= Len(base) /\ SubSeq(path, 1, Len(base)) = base
    THEN <<SubSeq(path, Len(base) + 1, Len(path))>>
    ELSE <<>>

\* The test before `continue`: the relative path is one of DIFF_SKIP_PATHS,
\* or it is Cargo.toml and the version has a git revision.
skipped_CargoTomlAlways(rel_path, has_git_rev) ==
    \/ \E p \in DIFF_SKIP_PATHS : <<p>> = rel_path
    \/ <<CARGO_TOML_FILE>> = rel_path

skipped(rel_path, has_git_rev) ==
    \/ \E p \in DIFF_SKIP_PATHS : <<p>> = rel_path
    \/ has_git_rev /\ <<CARGO_TOML_FILE>> = rel_path

\* The while loop over the chunks, three at a time, from the i-th on.
RECURSIVE diffstat_chunks(_, _, _, _, _, _, _)
diffstat_chunks(chunks, i, version1, version2, has_git_rev, diffstat, to_compare) ==
    IF i + 2 > Len(chunks)
    THEN Ok([diffstat |-> diffstat, to_compare |-> to_compare])
    ELSE LET changes_s == chunks[i]
             from_s == chunks[i + 1]
             to_s == chunks[i + 2]
             rel_path == IF to_s # DevNull THEN strip_prefix(to_s, version2)
                         ELSE strip_prefix(from_s, version1)
             counts == split_once(trim(changes_s), "\t")
             binary == counts # <<>> /\ counts[1] = <<<<"-">>, <<"-">>>>
             insertions == parse_u64(counts[1][1])
             deletions == parse_u64(counts[1][2])
             pushed == Append(to_compare, <<from_s, to_s>>)
         IN IF to_s = DevNull /\ from_s = DevNull THEN [st |-> "panic", v |-> "assert_ne"]
            ELSE IF rel_path = <<>> THEN Err([kind |-> "UnexpectedPath"])
            ELSE IF skipped(rel_path[1], has_git_rev)
            THEN diffstat_chunks(chunks, i + 3, version1, version2, has_git_rev,
                                 diffstat, to_compare)
            ELSE IF binary
            THEN diffstat_chunks(chunks, i + 3, version1, version2, has_git_rev,
                                 [diffstat EXCEPT !.files_changed = @ + 1], pushed)
            ELSE IF counts = <<>> \/ insertions = <<>> \/ deletions = <<>>
            THEN Err([kind |-> "InvalidOutput"])
            ELSE diffstat_chunks(chunks, i + 3, version1, version2, has_git_rev,
                                 [files_changed |-> diffstat.files_changed + 1,
                                  insertions |-> diffstat.insertions + insertions[1],
                                  deletions |-> diffstat.deletions + deletions[1]],
                                 pushed)

\* diffstat_package(version1, version2, has_git_rev) on the exit status and
\* the output of git.
diffstat_package(status, chunks, version1, version2, has_git_rev) ==
    IF status # 0 /\ status # 1
    THEN Err([kind |-> "BadStatus", status |-> status])
    ELSE diffstat_chunks(chunks, 1, version1, version2, has_git_rev,
                         [files_changed |-> 0, insertions |-> 0, deletions |-> 0], <<>>)

\* What git prints for one file: "{INSERTED}\t{DELETED}\t", then the two
\* paths ("/dev/null" for the missing side of an added or removed file).
RECURSIVE decimal(_)
decimal(n) == IF n < 10 THEN <<DigitChars[n + 1]>>
              ELSE decimal(n \div 10) \o <<DigitChars[(n % 10) + 1]>>
numstat_chunks(entry, version1, version2) ==
    <<IF entry.kind = "garbled" THEN <<"?">>
      ELSE IF entry.binary THEN <<"-", "\t", "-", "\t">>
      ELSE decimal(entry.insertions) \o <<"\t">> \o decimal(entry.deletions) \o <<"\t">>,
      IF entry.kind = "added" THEN DevNull
      ELSE IF entry.kind = "stray" THEN <<"tmp">> \o entry.rel_path
      ELSE version1 \o entry.rel_path,
      IF entry.kind = "removed" THEN DevNull
      ELSE IF entry.kind = "stray" THEN <<"tmp">> \o entry.rel_path
      ELSE version2 \o entry.rel_path>>

\* The number of files in one output of git.
MaxEntries == 3

\* The calls the model starts from: every exit status of interest, both
\* values of has_git_rev, and outputs of up to MaxEntries files (modified,
\* added, removed; text and binary; skipped names at the root and below
\* it), also with a garbled count or a path outside the two directories,
\* complete or cut off in the last file.
DiffInit ==
    LET Entry(kind, rel_path, binary, ins, del) ==
            [kind |-> kind, rel_path |-> rel_path, binary |-> binary,
             insertions |-> ins, deletions |-> del]
        Entries == {Entry("modified", <<"Cargo.lock">>, FALSE, 3, 1),
                    Entry("added", <<".cargo_vcs_info.json">>, FALSE, 6, 0),
                    Entry("removed", <<".cargo-ok">>, FALSE, 0, 1),
                    Entry("modified", <<"Cargo.toml">>, FALSE, 12, 7),
                    Entry("removed", <<"Cargo.toml">>, FALSE, 0, 20),
                    Entry("modified", <<"src", "lib.rs">>, FALSE, 10, 0),
                    Entry("added", <<"src", "lib.rs">>, FALSE, 105, 0),
                    Entry("modified", <<"logo.png">>, TRUE, 0, 0),
                    Entry("removed", <<"sub", "Cargo.lock">>, FALSE, 0, 4),
                    Entry("garbled", <<"src", "lib.rs">>, FALSE, 0, 0),
                    Entry("garbled", <<"Cargo.lock">>, FALSE, 0, 0),
                    Entry("stray", <<"f">>, FALSE, 1, 1)}
        version1 == <<"src", "libx-1">>
        version2 == <<"src", "libx-2">>
    IN \E status \in {0, 1, 2, -1}, has_git_rev \in BOOLEAN,
          entries \in SeqsUpTo(Entries, MaxEntries), cut \in 0..2 :
         diff_call =
           [pc |-> "start", version1 |-> version1, version2 |-> version2,
            has_git_rev |-> has_git_rev, status |-> status, entries |-> entries,
            chunks |-> LET all == Flatten([i \in DOMAIN entries |->
                                    numstat_chunks(entries[i], version1, version2)])
                       IN IF cut = 0 \/ entries = <<>> THEN all \o <<<<>>>>
                          ELSE SubSeq(all, 1, Len(all) - cut),
            cut |-> IF entries = <<>> THEN 0 ELSE cut,
            result |-> NoResult]

DiffIdle == diff_call = NotInUse

DiffstatPackage ==
    /\ diff_call.pc = "start"
    /\ diff_call' = [diff_call EXCEPT
           !.pc = "done",
           !.result = diffstat_package(diff_call.status, diff_call.chunks,
                                       diff_call.version1, diff_call.version2,
                                       diff_call.has_git_rev)]
    /\ UNCHANGED <<cacheVars, lockVars, reconVars, storeVars, pubVars, resolver, dirVars,
                   unpackVars, drops, lateVars>>

DiffNext == DiffstatPackage

(***************************************************************************)
(* foreign_audit_file_to_local (specification SpecForeign).  A value of    *)
(* the foreign document carries whether parse_from_value accepts it        *)
(* (valid) and the names it lists; a map is a function on its keys.        *)
(***************************************************************************)
\* The package names of the foreign document, in the order of its maps.
ForeignPackages == <<"libx", "liby">>

\* is_known_criteria(valid_criteria, criteria_name)
is_known_criteria_NoReserved(valid_criteria, criteria_name) ==
    criteria_name \in valid_criteria

is_known_criteria(valid_criteria, criteria_name) ==
    \/ criteria_name = SAFE_TO_RUN
    \/ criteria_name = SAFE_TO_DEPLOY
    \/ criteria_name \in valid_criteria

\* Vec::retain of the known names.
retain_known(valid_criteria, names) ==
    LET known(criteria_name) == is_known_criteria(valid_criteria, criteria_name)
    IN SelectSeq(names, known)

\* parse_imported_audit and parse_imported_wildcard_audit: None for a value
\* that does not parse or that names no known criteria, else the entry with
\* its known criteria.
parse_imported_audit(valid_criteria, value) ==
    IF ~value.valid THEN <<>>
    ELSE LET criteria == retain_known(valid_criteria, value.criteria)
         IN IF criteria = <<>> THEN <<>>
            ELSE <<[id |-> value.id, criteria |-> criteria]>>

\* The entries of one package that parse, in order.
parsed_audits(valid_criteria, values) ==
    LET kept(value) == parse_imported_audit(valid_criteria, value) # <<>>
        survivors == SelectSeq(values, kept)
    IN [i \in DOMAIN survivors |-> parse_imported_audit(valid_criteria, survivors[i])[1]]

\* The package pushed to ignored_audits once per entry that does not parse.
ignored_in(valid_criteria, map) ==
    Flatten([p \in DOMAIN ForeignPackages |->
        IF ForeignPackages[p] \notin DOMAIN map THEN <<>>
        ELSE LET values == map[ForeignPackages[p]]
                 dropped(value) == parse_imported_audit(valid_criteria, value) = <<>>
                 ignored == SelectSeq(values, dropped)
             IN [i \in DOMAIN ignored |-> ForeignPackages[p]]])

\* One of the two maps: every package's parsed entries, without the
\* packages that are left with none.
local_audits(valid_criteria, map) ==
    LET nonempty == {package \in DOMAIN map :
                        parsed_audits(valid_criteria, map[package]) # <<>>}
    IN [package \in nonempty |-> parsed_audits(valid_criteria, map[package])]

foreign_audit_file_to_local(foreign_audit_file) ==
    LET valid_criteria == {name \in DOMAIN foreign_audit_file.criteria :
                              foreign_audit_file.criteria[name].valid}
        criteria == [name \in valid_criteria |->
                        [implies |-> retain_known(valid_criteria,
                                         foreign_audit_file.criteria[name].implies)]]
    IN [audit_file |->
            [criteria |-> criteria,
             wildcard_audits |-> local_audits(valid_criteria,
                                              foreign_audit_file.wildcard_audits),
             audits |-> local_audits(valid_criteria, foreign_audit_file.audits)],
        ignored_criteria |-> DOMAIN foreign_audit_file.criteria \ valid_criteria,
        ignored_audits |-> ignored_in(valid_criteria, foreign_audit_file.audits)
                           \o ignored_in(valid_criteria,
                                         foreign_audit_file.wildcard_audits)]

\* The foreign documents the model starts from: criteria that parse or do
\* not, with implies lists naming surviving, dropped, reserved and unheard-of
\* criteria; audits and wildcard audits likewise.
ForeignInit ==
    LET Value(id, valid, criteria) == [id |-> id, valid |-> valid, criteria |-> criteria]
        Lists == {<<"fuzzed">>, <<"reviewed", SAFE_TO_DEPLOY>>, <<"newer">>,
                  <<"newer", "fuzzed">>}
        Values(id) == {Value(id, TRUE, list) : list \in Lists}
                      \cup {Value(id, FALSE, <<"fuzzed">>), Value(id, FALSE, <<>>)}
        Criteria == {[valid |-> TRUE, implies |-> <<>>],
                     [valid |-> TRUE, implies |-> <<"reviewed", SAFE_TO_RUN, "newer">>],
                     [valid |-> TRUE, implies |-> <<"fuzzed">>],
                     [valid |-> FALSE, implies |-> <<SAFE_TO_RUN>>]}
        Tables == UNION {[names -> Criteria] :
                            names \in SUBSET {"fuzzed", "reviewed"}}
        Entries(n) == UNION {{[i \in 1..k |-> v[i]] :
                                 v \in [1..k -> UNION {Values(id) : id \in 1..2}]} :
                             k \in 0..n}
        Numbered(s) == \A i \in DOMAIN s : s[i].id = i
        Maps(n, m) == UNION {{map \in [packages -> Entries(n)] :
                                 /\ \A p \in packages : Numbered(map[p])
                                 /\ "liby" \in packages => Len(map["liby"]) <= m} :
                             packages \in SUBSET {"libx", "liby"}}
    IN \E criteria \in Tables, audits \in Maps(2, 1), wildcard_audits \in Maps(1, 0) :
         foreign = [pc |-> "start",
                    file |-> [criteria |-> criteria, audits |-> audits,
                              wildcard_audits |-> wildcard_audits],
                    result |-> <<>>]

ForeignAuditFileToLocal ==
    /\ foreign.pc = "start"
    /\ foreign' = [foreign EXCEPT !.pc = "done",
                                  !.result = <<foreign_audit_file_to_local(foreign.file)>>]
    /\ UNCHANGED <<cacheVars, lockVars, reconVars, storeVars, pubVars, resolver, dirVars,
                   unpackVars, diff_call, drops, cache_load, refetch>>

ForeignNext == ForeignAuditFileToLocal

(***************************************************************************)
(* Cache::acquire and Drop for Cache on diff-cache.toml                    *)
(***************************************************************************)
CACHE_DIFF_CACHE == "diff-cache.toml"
DiffCacheTag == "V2"

\* What diff-cache.toml holds: nothing (no file), text that is not TOML, an
\* empty file, or a document with a version tag and a diffs table.
Document(kind, version, diffs) == [kind |-> kind, version |-> version, diffs |-> diffs]
NoDocument == Document("absent", "", {})
Garbled == Document("garbled", "", {})
EmptyDocument == Document("empty", "", {})

\* DiffCache has the single variant V2 { diffs }; DiffCache::default()
DiffCacheV2(diffs) == [diffs |-> diffs]
DefaultDiffCache == DiffCacheV2({})

\* load_toml(CACHE_DIFF_CACHE, f): the text is read and deserialized as a
\* DiffCache; only a document tagged V2 deserializes.
load_toml(document) ==
    IF document.kind = "toml" /\ document.version = DiffCacheTag
    THEN Ok(DiffCacheV2(document.diffs))
    ELSE Err("TomlParse")

\* store_diff_cache
store_diff_cache(cache) == Document("toml", DiffCacheTag, cache.diffs)

\* File::open(&diff_cache_path).ok().and_then(|f| load_toml(..).ok())
\*     .unwrap_or_default()
setup_diff_cache(open_ok, document) ==
    IF ~open_ok \/ document.kind = "absent"
    THEN DefaultDiffCache
    ELSE LET loaded == load_toml(document)
         IN  IF loaded.st = "ok" THEN loaded.v ELSE DefaultDiffCache

LoadInit ==
    LET Diffs == {"libx 1->2", "liby 1->2"}
        Documents == {NoDocument, Garbled, EmptyDocument}
                     \cup {Document("toml", version, diffs) :
                              version \in {"V1", "V2", "V3"}, diffs \in SUBSET Diffs}
    IN \E document \in Documents, mock, root_ok, open_ok \in BOOLEAN :
         cache_load = [pc |-> "start", mock |-> mock, root_ok |-> root_ok,
                       open_ok |-> open_ok, before |-> document, disk |-> document,
                       diff_cache_path |-> <<>>, loaded |-> <<>>,
                       diff_cache |-> <<>>, result |-> NoResult]

\* Cache::acquire: a mock cache has no paths and default state; otherwise
\* the directories and the lock are set up (an error returns), and the
\* diff-cache is loaded (loaded keeps what the load gave).
AcquireDiffCache ==
    /\ cache_load.pc = "start"
    /\ cache_load' =
         IF cache_load.mock
         THEN [cache_load EXCEPT !.pc = "acquired", !.loaded = <<DefaultDiffCache>>,
                                 !.diff_cache = <<DefaultDiffCache>>,
                                 !.result = Ok("Cache")]
         ELSE IF ~cache_load.root_ok
         THEN [cache_load EXCEPT !.pc = "failed", !.result = Err("Root")]
         ELSE [cache_load EXCEPT
                  !.pc = "acquired",
                  !.diff_cache_path = <<CACHE_DIFF_CACHE>>,
                  !.loaded = <<setup_diff_cache(cache_load.open_ok, cache_load.disk)>>,
                  !.diff_cache = <<setup_diff_cache(cache_load.open_ok, cache_load.disk)>>,
                  !.result = Ok("Cache")]
    /\ UNCHANGED <<cacheVars, lockVars, reconVars, storeVars, pubVars, resolver, dirVars,
                   unpackVars, diff_call, drops, foreign, refetch>>

\* fetch_and_diffstat_package records a computed diffstat in the diff-cache.
RecordDiff ==
    /\ cache_load.pc = "acquired"
    /\ \E diff \in {"libx 1->2", "libz 3->4"} :
         /\ diff \notin cache_load.diff_cache[1].diffs
         /\ cache_load' = [cache_load EXCEPT
                              !.diff_cache = <<DiffCacheV2(@[1].diffs \cup {diff})>>]
    /\ UNCHANGED <<cacheVars, lockVars, reconVars, storeVars, pubVars, resolver, dirVars,
                   unpackVars, diff_call, drops, foreign, refetch>>

\* Drop for Cache: with a diff_cache_path the diff-cache is serialized and
\* written; a failing fs::write leaves the file as it was or cut to nothing.
DropDiffCache ==
    /\ cache_load.pc = "acquired"
    /\ \E written \in {"all", "none", "truncated"} :
         cache_load' =
            [cache_load EXCEPT
                !.pc = "dropped",
                !.diff_cache = <<DefaultDiffCache>>,
                !.disk = IF cache_load.diff_cache_path = <<>> \/ written = "none"
                         THEN @
                         ELSE IF written = "truncated" THEN EmptyDocument
                         ELSE store_diff_cache(cache_load.diff_cache[1])]
    /\ UNCHANGED <<cacheVars, lockVars, reconVars, storeVars, pubVars, resolver, dirVars,
                   unpackVars, diff_call, drops, foreign, refetch>>

LoadNext == AcquireDiffCache \/ RecordDiff \/ DropDiffCache

(***************************************************************************)
(* fetch_package calls on a Cache between its gc and clean calls           *)
(* (specification SpecRefetch).  One registry version, libx 1: its archive *)
(* is cache/libx-1.crate and its unpack directory src/libx-1.  The calls   *)
(* are made one after another.                                             *)
(***************************************************************************)
MaxFetches == 3

LibxCrate == <<"libx-1", "crate">>
LibxSrc == <<"libx-1">>
LibxPath == "src/libx-1"

\* The directory src/libx-1 exists and fetch_is_ok accepts it.
unpacked_ok(root) ==
    /\ "src" \in DOMAIN root.children
    /\ LibxSrc \in DOMAIN root.src
    /\ fetch_is_ok(root.src[LibxSrc])

\* The initializer of fetch_package for a registry version when the host
\* registry has no copy: the cached archive is opened and its times are set
\* to now, or (without it) the archive is downloaded, Frozen without a
\* network; then the directory is returned if its marker is valid, else
\* the archive is unpacked.
fetch_initializer(root, has_network, unpack_ok) ==
    LET has_cache == "cache" \in DOMAIN root.children
        cached == has_cache /\ LibxCrate \in DOMAIN root.cache
        opened == [root EXCEPT !.cache = (LibxCrate :> [age |-> <<0>>]) @@ @]
        unpacked(cargo_ok) ==
            [opened EXCEPT !.src = (LibxSrc :> [kind |-> "dir", cargo_ok |-> cargo_ok]) @@ @]
    IN IF ~cached /\ ~has_network THEN [result |-> Err("Frozen"), root |-> root]
       ELSE IF ~cached /\ ~has_cache THEN [result |-> Err("Download"), root |-> root]
       ELSE IF unpacked_ok(opened) THEN [result |-> Ok(LibxPath), root |-> opened]
       ELSE IF "src" \notin DOMAIN opened.children
       THEN [result |-> Err("Unpack"), root |-> opened]
       ELSE IF ~unpack_ok THEN [result |-> Err("Unpack"), root |-> unpacked(<<>>)]
       ELSE [result |-> Ok(LibxPath), root |-> unpacked(<<CARGO_OK_BODY>>)]

\* A Cache as Cache::acquire leaves it, with or without the archive and the
\* unpack directory of libx 1, and no once-cell yet.
RefetchInit ==
    LET None == [k \in {} |-> <<>>]
        Made == (CACHE_VET_LOCK :> "file") @@ ("empty" :> "dir")
                @@ ("src" :> "dir") @@ ("cache" :> "dir")
        Caches == {None} \cup {LibxCrate :> [age |-> a] : a \in {<<4>>, <<>>}}
        Srcs == {None} \cup {LibxSrc :> [kind |-> "dir", cargo_ok |-> m] :
                                m \in {<<CARGO_OK_BODY>>, <<>>}}
    IN /\ \E c \in Caches, s \in Srcs :
            cache_root = [children |-> Made, empty |-> {}, cache |-> c, src |-> s]
       /\ cache_state = [alive |-> TRUE, mock |-> FALSE, diff_cache |-> "default",
                         command_history |-> "default", publisher_cache |-> "default",
                         since_clean |-> FALSE, recorded |-> FALSE]
       /\ cache_call = [pc |-> "idle", op |-> "none"]
       /\ \E has_network \in BOOLEAN :
            refetch = [network |-> has_network, fetched_packages |-> <<>>,
                       calls |-> 0, removed |-> FALSE, result |-> NoResult,
                       valid |-> FALSE]

\* fetch_package: the once-cell of the key is taken from fetched_packages;
\* get_or_try_init returns its value if it has one, else runs the
\* initializer and keeps an Ok value.  valid records whether the returned
\* path was a validly marked directory when the call returned, removed
\* whether a gc or clean had run on the Cache before the call.
FetchOnCache ==
    /\ cache_call.pc = "idle"
    /\ refetch.calls < MaxFetches
    /\ IF refetch.fetched_packages # <<>>
       THEN /\ refetch' = [refetch EXCEPT
                   !.calls = @ + 1,
                   !.removed = cache_call.op \in {"gc", "clean"},
                   !.result = Ok(refetch.fetched_packages[1]),
                   !.valid = unpacked_ok(cache_root)]
            /\ UNCHANGED cache_root
       ELSE \E unpack_ok \in BOOLEAN :
              LET done == fetch_initializer(cache_root, refetch.network, unpack_ok)
              IN /\ cache_root' = done.root
                 /\ refetch' = [refetch EXCEPT
                        !.calls = @ + 1,
                        !.removed = cache_call.op \in {"gc", "clean"},
                        !.fetched_packages =
                            IF done.result.st = "ok" THEN <<done.result.v>> ELSE <<>>,
                        !.result = done.result,
                        !.valid = unpacked_ok(done.root)]
    /\ UNCHANGED <<cache_state, cache_call>>
    /\ UNCHANGED <<cacheVars, lockVars, reconVars, storeVars, pubVars, resolver,
                   unpackVars, diff_call, drops, foreign, cache_load>>

\* Time passes: the archive is one unit older.
Later ==
    /\ cache_call.pc = "idle"
    /\ LibxCrate \in DOMAIN cache_root.cache
    /\ cache_root.cache[LibxCrate].age \in {<<0>>, <<4>>}
    /\ cache_root' = [cache_root EXCEPT !.cache[LibxCrate].age = <<@[1] + 1>>]
    /\ UNCHANGED <<cache_state, cache_call>>
    /\ UNCHANGED <<cacheVars, lockVars, reconVars, storeVars, pubVars, resolver,
                   unpackVars, diff_call, drops, lateVars>>

RefetchNext ==
    \/ FetchOnCache \/ Later
    \/ Gc \/ GcRoot \/ GcEmpty \/ GcPackages \/ GcReturns
    \/ Clean \/ CleanRemove
(***************************************************************************)
(* Specifications                                                          *)
(***************************************************************************)
\* No Cache is in use.
CacheIdle ==
    /\ mutex = NoTask
    /\ fetched_packages = NotInUse
    /\ diffed = NotInUse
    /\ diff_cache = NotInUse
    /\ publisher_cache = FALSE
    /\ diff_semaphore = MAX_CONCURRENT_DIFFS
    /\ src_dir = NotInUse
    /\ crate_file = NotInUse
    /\ registry_src = NotInUse
    /\ network = FALSE
    /\ tasks = NotInUse
    /\ src0 = NotInUse
    /\ fetch_runs = NotInUse
    /\ fetch_failed = NotInUse
    /\ unpacks = NotInUse
    /\ diff_runs = NotInUse
    /\ cleaned = FALSE

ForeignIdle == foreign = NotInUse
LoadIdle == cache_load = NotInUse
RefetchIdle == refetch = NotInUse
LateIdle == ForeignIdle /\ LoadIdle /\ RefetchIdle

\* One Cache used by concurrent tasks.
Init == CacheInit /\ LockInit /\ ReconIdle /\ StoreIdle /\ PubIdle /\ ResolverIdle /\ DirIdle /\ UnpackIdle /\ DiffIdle /\ DropIdle /\ LateIdle
Next == CacheNext
Spec == Init /\ [][Next]_vars

\* Processes creating, acquiring, committing and dropping Stores and Caches.
InitLock == CacheIdle /\ LockInit /\ ReconIdle /\ StoreIdle /\ PubIdle /\ ResolverIdle /\ DirIdle /\ UnpackIdle /\ DiffIdle /\ DropIdle /\ LateIdle
SpecLock == InitLock /\ [][LockNext]_vars

\* process_imported_audits on fetched audits, and once more on its result.
InitRecon == CacheIdle /\ LockInit /\ ReconInit /\ StoreIdle /\ PubIdle /\ ResolverIdle /\ DirIdle /\ UnpackIdle /\ DiffIdle /\ DropIdle /\ LateIdle
SpecRecon == InitRecon /\ [][ReconNext]_vars


\* One Store from Store::acquire's validate to commit.
InitStore == CacheIdle /\ LockInit /\ ReconIdle /\ StoreInit /\ PubIdle /\ ResolverIdle /\ DirIdle /\ UnpackIdle /\ DiffIdle /\ DropIdle /\ LateIdle
SpecStore == InitStore /\ [][StoreNext]_vars

\* Calls of Cache::get_publishers on a publisher cache with contents.
InitPublishers == CacheIdle /\ LockInit /\ ReconIdle /\ StoreIdle /\ PubInit /\ ResolverIdle /\ DirIdle /\ UnpackIdle /\ DiffIdle /\ DropIdle /\ LateIdle
SpecPublishers == InitPublishers /\ [][PubNext]_vars

\* Calls of import_publisher_versions from Store::acquire and from
\* ensure_publisher_versions.
InitResolver == CacheIdle /\ LockInit /\ ReconIdle /\ StoreIdle /\ PubIdle /\ ResolverInit /\ DirIdle /\ UnpackIdle /\ DiffIdle /\ DropIdle /\ LateIdle
SpecResolver == InitResolver /\ [][ResolverNext]_vars

\* One Cache with its directory: gc, clean and drop.
InitCacheDir ==
    CacheIdle /\ LockInit /\ ReconIdle /\ StoreIdle /\ PubIdle /\ ResolverIdle /\ DirInit
    /\ UnpackIdle /\ DiffIdle /\ DropIdle /\ LateIdle
SpecCacheDir == InitCacheDir /\ [][DirNext]_vars

\* The initializer of fetch_package for one package version, run twice.
InitUnpack ==
    CacheIdle /\ LockInit /\ ReconIdle /\ StoreIdle /\ PubIdle /\ ResolverIdle /\ DirIdle
    /\ UnpackInit /\ DiffIdle /\ DropIdle /\ LateIdle
SpecUnpack == InitUnpack /\ [][UnpackNext]_vars

\* One call of diffstat_package on one output of git.
InitDiffstat ==
    CacheIdle /\ LockInit /\ ReconIdle /\ StoreIdle /\ PubIdle /\ ResolverIdle /\ DirIdle
    /\ UnpackIdle /\ DiffInit /\ DropIdle /\ LateIdle
SpecDiffstat == InitDiffstat /\ [][DiffNext]_vars

\* fetch_package callers that may be dropped while they are pending.
InitDrop ==
    CacheInit /\ LockInit /\ ReconIdle /\ StoreIdle /\ PubIdle /\ ResolverIdle /\ DirIdle
    /\ UnpackIdle /\ DiffIdle /\ DropInit /\ LateIdle
SpecDrop == InitDrop /\ [][DropNext]_vars

\* The runtime polls every caller that stays alive; nothing makes a drop
\* happen.
SpecDropFair ==
    /\ SpecDrop
    /\ \A t \in Tasks :
         /\ WF_vars(FetchLock(t)) /\ WF_vars(FetchCell(t)) /\ WF_vars(FetchCached(t))
         /\ WF_vars(FetchBecomeRunner(t)) /\ WF_vars(FetchInitGit(t))
         /\ WF_vars(FetchInitRegistry(t)) /\ WF_vars(FetchDownload(t))
         /\ WF_vars(FetchCheck(t)) /\ WF_vars(FetchUnpack(t))

\* One call of foreign_audit_file_to_local on one foreign document.
InitForeign ==
    CacheIdle /\ LockInit /\ ReconIdle /\ StoreIdle /\ PubIdle /\ ResolverIdle /\ DirIdle
    /\ UnpackIdle /\ DiffIdle /\ DropIdle /\ ForeignInit /\ LoadIdle /\ RefetchIdle
SpecForeign == InitForeign /\ [][ForeignNext]_vars

\* Cache::acquire loading diff-cache.toml, use of the cache, and its drop.
InitCacheLoad ==
    /\ CacheIdle /\ LockInit /\ ReconIdle /\ StoreIdle /\ PubIdle /\ ResolverIdle /\ DirIdle
    /\ UnpackIdle /\ DiffIdle /\ DropIdle /\ ForeignIdle /\ LoadInit /\ RefetchIdle
SpecCacheLoad == InitCacheLoad /\ [][LoadNext]_vars

\* fetch_package calls on one Cache, with gc and clean in between.
InitRefetch ==
    /\ CacheIdle /\ LockInit /\ ReconIdle /\ StoreIdle /\ PubIdle /\ ResolverIdle /\ RefetchInit
    /\ UnpackIdle /\ DiffIdle /\ DropIdle /\ ForeignIdle /\ LoadIdle
SpecRefetch == InitRefetch /\ [][RefetchNext]_vars
(***************************************************************************)
(* Properties of the Cache (specification Spec)                            *)
(***************************************************************************)
FetchCalls(k) == {t \in Tasks : tasks[t].op = "fetch" /\ tasks[t].arg = k}
DiffCalls(d) == {t \in Tasks : tasks[t].op = "diff" /\ tasks[t].arg = d}
Succeeded(t) == tasks[t].pc = "done" /\ tasks[t].res.st = "ok"

\* The scenario of C1 for key k: fetch_package was called for k, every such
\* call has returned, no fetch or diff call on the Cache has failed, and
\* clean() was not called.
FetchScenario(k) ==
    /\ ~cleaned
    /\ FetchCalls(k) # {}
    /\ \A t \in FetchCalls(k) : Succeeded(t)
    /\ \A t \in Tasks : tasks[t].op \in {"fetch", "diff"} => tasks[t].res.st # "err"

SamePath(k) ==
    \A t \in FetchCalls(k) : tasks[t].res.v = fetched_packages[k].value

\* C1 as stated: when the fetch_package calls for a key all succeed, they
\* return the same path and the unpack for the key was performed exactly once.
C1_Original ==
    \A k \in Keys : FetchScenario(k) => SamePath(k) /\ unpacks[k] = 1

\* C1 amended: when the fetch_package calls for a key all succeed, they
\* return the same path and the unpack for the key was performed at most
\* once: exactly once when neither the host registry nor the cache held a
\* validly marked unpack of the key beforehand, and not at all otherwise.
C1_SamePathOneUnpack ==
    \A k \in Keys :
        FetchScenario(k) =>
            /\ SamePath(k)
            /\ unpacks[k] = IF registry_src[k] \/ src0[k] = "ok" THEN 0 ELSE 1

C1_Witness ==
    \E k \in Keys :
        /\ FetchScenario(k)
        /\ Cardinality(FetchCalls(k)) >= 2
        /\ unpacks[k] = 1
        /\ SamePath(k)

\* C2 as stated: over the lifetime of the Cache the fetch-and-unpack sequence
\* of a key is executed at most once, failing runs included.
C2_Original == \A k \in Keys : fetch_runs[k] <= 1

\* C2 amended: the fetch-and-unpack sequence of a key is executed at most
\* once unless it fails: every execution beyond the first follows a failed
\* one, so at most one execution is in progress or has succeeded.
C2_AtMostOnceUnlessFailed ==
    \A k \in Keys : fetch_runs[k] <= fetch_failed[k] + 1

C2_Witness ==
    \E k \in Keys :
        /\ fetch_runs[k] = 2
        /\ fetch_failed[k] = 1
        /\ fetched_packages[k].value # Unset

\* The scenario of C3 for delta d: the diff-cache started empty and was not
\* cleared, every fetch_and_diffstat_package call made on the Cache is for d,
\* and every one has returned a DiffStat.
DiffScenario(d) ==
    /\ ~cleaned
    /\ DiffCalls(d) # {}
    /\ \A t \in Tasks : tasks[t].op = "diff" => tasks[t].arg = d /\ Succeeded(t)

SuspendedPcs == {"f_await", "f_init", "f_download", "f_check", "f_unpack",
                 "d_await", "d_sem", "d_diff", "c_remove", "p_http"}
\* Where a task is blocked in self.state.lock().
LockingPcs == {"f_lock", "d_lock", "d_rec_lock", "c_lock", "p_lock", "p_lock2"}

\* C4: the state mutex is never held by a task that is suspended (or that
\* has returned, or that is itself waiting for the mutex).
C4_MutexNotHeldAcrossAwait ==
    \A t \in Tasks :
        tasks[t].pc \in SuspendedPcs \cup LockingPcs \cup {"idle", "done"}
            => mutex # t

C4_Witness ==
    \E t, u \in Tasks :
        /\ mutex = t
        /\ tasks[u].pc \in SuspendedPcs
        /\ tasks[u].op # tasks[t].op


(***************************************************************************)
(* Properties of the file locks (specification SpecLock)                   *)
(***************************************************************************)
\* The process owns a Store that create or acquire returned and that has
\* neither been dropped nor come back from commit.
StoreAlive(p) == procs[p].store

\* C5: a live Store obtained by create or acquire holds the exclusive lock
\* on config.toml, so two processes never own a live Store of the same root
\* at once (a second create or acquire completes only after the first Store
\* is dropped or its commit has returned); and a non-mock Cache holds
\* .vet-lock, so two processes never own a non-mock Cache of the same root
\* at once.
C5_ExclusiveLocks ==
    /\ \A p \in Procs : StoreAlive(p) => config_lock = p
    /\ \A p, q \in Procs : StoreAlive(p) /\ StoreAlive(q) => p = q
    /\ \A p \in Procs : procs[p].cache = "locked" => vet_lock = p
    /\ \A p, q \in Procs :
          procs[p].cache = "locked" /\ procs[q].cache = "locked" => p = q

\* One process is committing its Store and holds a non-mock Cache while
\* another one waits for the store lock.
C5_Witness ==
    \E p, q \in Procs :
        /\ p # q
        /\ StoreAlive(p)
        /\ procs[p].pc = "commit"
        /\ procs[p].cache = "locked"
        /\ procs[q].pc \in {"create_lock", "acquire_lock"}

\* The steps of Store::acquire, in order, for a run with the given flags.
AcquireSteps(locked, has_network) ==
    IF ~locked /\ has_network
    THEN <<"lock", "load", "reconcile", "publishers", "validate">>
    ELSE <<"lock", "load", IF locked THEN "validate_formatting" ELSE "validate">>

\* C15: Store::acquire takes the store lock, loads the three documents, then,
\* only when a network was given and the run is not locked, runs the import
\* reconciler and after it the publisher resolver, and calls validate last,
\* checking the formatting exactly when the run is locked; live_imports is
\* Some exactly when imports were fetched; and the Store is returned only
\* when all steps were taken and validate returned Ok.
C15_AcquireOrder ==
    \A p \in Procs :
        LET proc == procs[p]
            steps == AcquireSteps(proc.locked, proc.network)
        IN /\ Len(proc.acquire) <= Len(steps)
           /\ Len(proc.acquire) > 1 => proc.acquire = SubSeq(steps, 1, Len(proc.acquire))
           /\ proc.acquire # <<>> => proc.acquire[1] = "lock" /\ config_lock = p
           /\ proc.live_imports =>
                ~proc.locked /\ proc.network /\ Len(proc.acquire) >= 4
           /\ proc.store /\ proc.acquire # <<>> =>
                /\ proc.acquire = steps
                /\ proc.valid
                /\ proc.live_imports <=> (~proc.locked /\ proc.network)

\* An acquire that fetched (not locked, with a network) has returned its
\* Store, with live imports, while another process waits for the lock.
C15_Witness ==
    \E p \in Procs :
        /\ procs[p].store /\ procs[p].pc = "idle"
        /\ procs[p].acquire = <<"lock", "load", "reconcile", "publishers", "validate">>
        /\ procs[p].live_imports
        /\ \E q \in Procs \ {p} : procs[q].pc = "acquire_lock"

(***************************************************************************)
(* Properties of the reconciliation (specification SpecRecon)               *)
(***************************************************************************)
\* The names of the local vocabulary: the criteria of audits.toml and the
\* two reserved names.
LocalVocabulary == {n \in CustomNameSet : local_criteria[n].present} \cup ReservedNames

\* The audit lists and the wildcard-audit lists of an imports-lock.
AuditLists(lock) ==
    {lock.audits[p].audits[pkg] : p \in PeerSet, pkg \in Packages}
    \cup {lock.audits[p].wildcard_audits[pkg] : p \in PeerSet, pkg \in Packages}

FirstPeer == fetched_audits[1]
FirstNew == result1.lock.audits[FirstPeer.name]

CriteriaAreLocal(lock) ==
    \A list \in AuditLists(lock) : \A i \in 1..Len(list) :
        Range(list[i].criteria) \subseteq LocalVocabulary

\* C6: in the imports-lock of a successful reconciliation every criteria
\* name of every audit and wildcard audit belongs to the local vocabulary
\* or is reserved.
C6_CriteriaAreLocal ==
    /\ result1.st = "ok" => CriteriaAreLocal(result1.lock)
    /\ result2.st = "ok" => CriteriaAreLocal(result2.lock)

\* A successful run on a peer whose audit and wildcard audit both carried
\* the peer's own criterion, which the criteria map rewrote.
C6_Witness ==
    /\ result1.st = "ok"
    /\ \E pkg \in Packages :
         /\ \E i \in 1..Len(FirstNew.audits[pkg]) :
              /\ "fuzzed" \in Range(FirstPeer.file.audits[pkg][i].criteria)
              /\ "reviewed" \in Range(FirstNew.audits[pkg][i].criteria)
         /\ \E i \in 1..Len(FirstNew.wildcard_audits[pkg]) :
              /\ "fuzzed" \in Range(FirstPeer.file.wildcard_audits[pkg][i].criteria)
              /\ "reviewed" \in Range(FirstNew.wildcard_audits[pkg][i].criteria)

NotFresh(list) == [i \in 1..Len(list) |-> [list[i] EXCEPT !.is_fresh_import = FALSE]]

\* The imports-lock with every freshness flag cleared.
StripFresh(lock) ==
    [publisher |-> lock.publisher,
     audits |-> [p \in PeerSet |->
        [present |-> lock.audits[p].present,
         criteria |-> lock.audits[p].criteria,
         audits |-> [pkg \in Packages |-> NotFresh(lock.audits[p].audits[pkg])],
         wildcard_audits |->
            [pkg \in Packages |-> NotFresh(lock.audits[p].wildcard_audits[pkg])]]]]

SomeFresh(lock) ==
    \E list \in AuditLists(lock) : \E i \in 1..Len(list) : list[i].is_fresh_import

\* C7: the second run, on the same fetched audits and with the first result
\* as the lock, succeeds with an imports-lock that equals the first one up
\* to the freshness flags, and none of its entries is fresh.
C7_Idempotent ==
    rpc = "twice" =>
        /\ result2.st = "ok"
        /\ StripFresh(result2.lock) = StripFresh(result1.lock)
        /\ ~SomeFresh(result2.lock)

\* Both peers were reconciled twice, and the first run had imported fresh
\* audits next to audits that the lock already had.
C7_Witness ==
    /\ rpc = "twice"
    /\ Len(fetched_audits) = 2
    /\ SomeFresh(result1.lock)
    /\ result1.lock # StripFresh(result1.lock)
    /\ \E list \in AuditLists(result1.lock) :
         \E i \in 1..Len(list) : ~list[i].is_fresh_import

\* How many audits of the list are equivalent to e, and the position of the
\* i-th audit among the audits of its list equivalent to it.
CountSame(list, e) == Cardinality({j \in 1..Len(list) : SameAuditAs(list[j], e)})
RankAmongSame(list, i) == Cardinality({j \in 1..i : SameAuditAs(list[j], list[i])})

NonFreshIffInPrior(prior_present, prior_list, new_list) ==
    \A i \in 1..Len(new_list) :
        ~new_list[i].is_fresh_import
            <=> (prior_present /\ CountSame(prior_list, new_list[i]) > 0)

NonFreshIffMatched(prior_present, prior_list, new_list) ==
    \A i \in 1..Len(new_list) :
        ~new_list[i].is_fresh_import
            <=> (prior_present
                 /\ RankAmongSame(new_list, i) <= CountSame(prior_list, new_list[i]))

\* C8 as stated: after a successful run an audit or wildcard audit of the
\* new imports-lock is non-fresh exactly when the prior lock has an
\* equivalent entry for the same peer and package.
C8_Original ==
    result1.st = "ok" =>
        \A p \in PeerSet, pkg \in Packages :
            result1.lock.audits[p].present =>
                /\ NonFreshIffInPrior(imports_lock.audits[p].present,
                                      imports_lock.audits[p].audits[pkg],
                                      result1.lock.audits[p].audits[pkg])
                /\ NonFreshIffInPrior(imports_lock.audits[p].present,
                                      imports_lock.audits[p].wildcard_audits[pkg],
                                      result1.lock.audits[p].wildcard_audits[pkg])

\* C8 amended: equivalent entries are matched one to one.  An entry of the
\* new list is non-fresh exactly when the prior lock has an entry for the
\* peer and the number of equivalent entries in the new list up to and
\* including it does not exceed the number of equivalent entries in the
\* prior list of the same peer and package.
C8_FreshUnlessMatched ==
    /\ result1.st = "ok" =>
        \A p \in PeerSet, pkg \in Packages :
            result1.lock.audits[p].present =>
                /\ NonFreshIffMatched(imports_lock.audits[p].present,
                                      imports_lock.audits[p].audits[pkg],
                                      result1.lock.audits[p].audits[pkg])
                /\ NonFreshIffMatched(imports_lock.audits[p].present,
                                      imports_lock.audits[p].wildcard_audits[pkg],
                                      result1.lock.audits[p].wildcard_audits[pkg])
    /\ result2.st = "ok" =>
        \A p \in PeerSet, pkg \in Packages :
            result2.lock.audits[p].present =>
                /\ NonFreshIffMatched(result1.lock.audits[p].present,
                                      result1.lock.audits[p].audits[pkg],
                                      result2.lock.audits[p].audits[pkg])
                /\ NonFreshIffMatched(result1.lock.audits[p].present,
                                      result1.lock.audits[p].wildcard_audits[pkg],
                                      result2.lock.audits[p].wildcard_audits[pkg])

\* The prior lock has one entry, the peer now publishes two entries
\* equivalent to it: the first is matched, the second stays fresh.
C8_Witness ==
    /\ result1.st = "ok"
    /\ \E pkg \in Packages :
         LET prior_list == imports_lock.audits[FirstPeer.name].audits[pkg]
             new_list == FirstNew.audits[pkg]
         IN  /\ Len(new_list) = 2
             /\ SameAuditAs(new_list[1], new_list[2])
             /\ CountSame(prior_list, new_list[1]) = 1
             /\ ~new_list[1].is_fresh_import
             /\ new_list[2].is_fresh_import

\* The (peer, criterion) pairs whose description changed: the peer was
\* fetched and has an entry in the prior lock, the criterion is published by
\* the peer and named in its criteria map (so it is retained), the prior lock
\* has it, and the two descriptions differ.
ChangedPairs ==
    {pair \in PeerSet \X CustomNameSet :
        \E k \in 1..Len(fetched_audits) :
            /\ fetched_audits[k].name = pair[1]
            /\ imports_lock.audits[pair[1]].present
            /\ fetched_audits[k].file.criteria[pair[2]].present
            /\ config_file[pair[1]].criteria_map[pair[2]].mapped
            /\ imports_lock.audits[pair[1]].criteria[pair[2]].present
            /\ imports_lock.audits[pair[1]].criteria[pair[2]].description
                 # fetched_audits[k].file.criteria[pair[2]].description}

\* C9: with allow_criteria_changes = false a run that returns fails with
\* CriteriaChange exactly when some retained criterion of a peer of the
\* prior lock changed its description; the error then lists each such
\* (peer, criterion) pair once, whichever peer it belongs to, and no
\* imports-lock is returned.
C9_CriteriaChange ==
    (result1.st \in {"ok", "err"} /\ ~allow_criteria_changes) =>
        /\ result1.st = "err" <=> ChangedPairs # {}
        /\ result1.st = "err" =>
              /\ Range(result1.errors) = ChangedPairs
              /\ Len(result1.errors) = Cardinality(ChangedPairs)
              /\ result1.lock = NoImports

\* Both peers changed the description of their criterion: two errors.
C9_Witness ==
    /\ result1.st = "err"
    /\ ~allow_criteria_changes
    /\ Len(result1.errors) = 2
    /\ result1.errors[1][1] # result1.errors[2][1]

\* The local criteria a foreign name resolves to under a criteria map.
Resolved(criteria_map, f) ==
    IF criteria_map[f].mapped
    THEN Range(criteria_map[f].to) \cap LocalVocabulary
    ELSE IF f \in ReservedNames THEN {f}
    ELSE {}

RewrittenAsResolved(criteria_map, foreign_list, new_list) ==
    /\ Len(new_list) = Len(foreign_list)
    /\ \A i \in 1..Len(new_list) :
          Range(new_list[i].criteria) =
              UNION {Resolved(criteria_map, f) : f \in Range(foreign_list[i].criteria)}

\* C10: every audit and wildcard audit of a successful run carries the union
\* of what its foreign criteria resolve to: the mapped list when the criteria
\* map has the name (reserved or not), else the same reserved name, else
\* nothing.
C10_ResolvedCriteria ==
    result1.st = "ok" =>
        \A k \in 1..Len(fetched_audits) :
            LET p == fetched_audits[k].name
                cfg == config_file[p]
            IN  \A pkg \in Packages :
                  /\ pkg \notin cfg.exclude =>
                        RewrittenAsResolved(cfg.criteria_map,
                                            fetched_audits[k].file.audits[pkg],
                                            result1.lock.audits[p].audits[pkg])
                  /\ RewrittenAsResolved(cfg.criteria_map,
                                         fetched_audits[k].file.wildcard_audits[pkg],
                                         result1.lock.audits[p].wildcard_audits[pkg])

\* The criteria map overrides safe-to-run: an audit published for
\* safe-to-run is imported without it, and an audit with two criteria gets
\* the union of what they map to.
C10_Witness ==
    /\ result1.st = "ok"
    /\ config_file[FirstPeer.name].criteria_map[SAFE_TO_RUN].mapped
    /\ \E pkg \in Packages :
         /\ \E i \in 1..Len(FirstNew.audits[pkg]) :
              /\ FirstPeer.file.audits[pkg][i].criteria = <<SAFE_TO_RUN>>
              /\ SAFE_TO_RUN \notin Range(FirstNew.audits[pkg][i].criteria)
              /\ FirstNew.audits[pkg][i].criteria # <<>>
         /\ \E i \in 1..Len(FirstNew.audits[pkg]) :
              /\ Len(FirstPeer.file.audits[pkg][i].criteria) = 2
              /\ Len(FirstNew.audits[pkg][i].criteria) = 2

\* C11 as stated: after a successful run no package of a peer's exclude set
\* appears in the peer's entry of the new imports-lock, neither among its
\* audits nor among its wildcard audits.
C11_Original ==
    result1.st = "ok" =>
        \A p \in PeerSet : \A pkg \in config_file[p].exclude :
            /\ result1.lock.audits[p].audits[pkg] = <<>>
            /\ result1.lock.audits[p].wildcard_audits[pkg] = <<>>

\* A peer publishes audits and a wildcard audit for a package that the
\* import excludes: the audits are gone, the wildcard audit is imported.
C11_Witness ==
    /\ result1.st = "ok"
    /\ \E pkg \in config_file[FirstPeer.name].exclude :
         /\ FirstPeer.file.audits[pkg] # <<>>
         /\ FirstNew.audits[pkg] = <<>>
         /\ FirstNew.wildcard_audits[pkg] # <<>>
(***************************************************************************)
(* Store contents: validate, clone_for_suggest, commit (SpecStore)          *)
(***************************************************************************)
\* validate has been called and Store::acquire has not yet looked at the result.
JustValidated == validated.done /\ ~validated.returned

\* How many errors of a kind validate returned.
ErrorCount(kind) ==
    Len(SelectSeq(validated.result.errors, LAMBDA e : e.kind = kind))

\* A package excluded by an import's config has audits / wildcard audits in
\* the peer's entry of imports.lock.
ExcludedInAudits ==
    \E p \in DOMAIN store.config.imports \cap DOMAIN store.imports.audits :
        store.config.imports[p].exclude \cap DOMAIN store.imports.audits[p].audits # {}
ExcludedInWildcardAudits ==
    \E p \in DOMAIN store.config.imports \cap DOMAIN store.imports.audits :
        store.config.imports[p].exclude
            \cap DOMAIN store.imports.audits[p].wildcard_audits # {}
PeersDiffer == DOMAIN store.config.imports # DOMAIN store.imports.audits

\* C12 as stated: validate reports ImportsLockOutdated exactly when
\* live_imports is absent and either the import names of the config differ
\* from the peer names of the imports-lock or a package excluded by an import
\* is still present in that peer's entry (among its audits or its wildcard
\* audits); with live_imports present it is never reported.
C12_Original ==
    JustValidated =>
        (ErrorCount("ImportsLockOutdated") > 0
            <=> /\ store.live_imports = <<>>
                /\ PeersDiffer \/ ExcludedInAudits \/ ExcludedInWildcardAudits)

\* A locked run whose imports-lock has the config's peers and a wildcard
\* audit for an excluded package: no ImportsLockOutdated is reported.
C12_Witness ==
    /\ JustValidated
    /\ store.live_imports = <<>>
    /\ ~PeersDiffer /\ ~ExcludedInAudits /\ ExcludedInWildcardAudits
    /\ ErrorCount("ImportsLockOutdated") = 0

\* Every criteria name the store refers to: in exemptions, policy criteria,
\* dev criteria, dependency-criteria, implies lists, audits, wildcard audits.
CriteriaReferences ==
    LET Names(entries) == Flatten([i \in 1..Len(entries) |-> entries[i].criteria])
        Opt(o) == IF o = <<>> THEN <<>> ELSE o[1]
        policy == store.config.policy
        customs == SelectSeq(CustomNames, LAMBDA c : c \in DOMAIN store.audits.criteria)
    IN Names(ValuesOf(store.config.exemptions))
       \o Flatten([i \in 1..Len(policy) |->
                     Opt(policy[i].criteria) \o Opt(policy[i].dev_criteria)
                     \o Flatten(policy[i].dependency_criteria)])
       \o Flatten([i \in 1..Len(customs) |-> store.audits.criteria[customs[i]].implies])
       \o Names(ValuesOf(store.audits.audits))
       \o Names(ValuesOf(store.audits.wildcard_audits))

KnownCriteria == DOMAIN store.audits.criteria \cup {SAFE_TO_RUN, SAFE_TO_DEPLOY}

\* today + 12 months, spelled out: the same day of the next year, and the
\* 28th of February for the 29th.
YearFromToday ==
    LET today == validated.today
    IN <<today[1] + 1, today[2],
         IF today[2] = 2 /\ today[3] = 29 THEN 28 ELSE today[3]>>

\* The local wildcard audits that end later than a year from today.
LateWildcardAudits ==
    SelectSeq(ValuesOf(store.audits.wildcard_audits),
              LAMBDA e : \/ e.end[1] > YearFromToday[1]
                         \/ /\ e.end[1] = YearFromToday[1]
                            /\ e.end[2] * 100 + e.end[3]
                                 > YearFromToday[2] * 100 + YearFromToday[3])

\* The documents whose text on disk is not what the store would write,
\* trailing whitespace aside.
MisformattedDocuments ==
    {d \in {"config", "audits", "imports"} :
        LET old == IF d = "config" THEN store.config_src
                   ELSE IF d = "audits" THEN store.audits_src ELSE store.imports_src
            new == IF d = "config" THEN store_config(store.config)
                   ELSE IF d = "audits" THEN store_audits(store.audits)
                   ELSE store_imports(store.imports)
        IN old.value # new.value
           \/ (old.layout # new.layout /\ old.layout # "padded")}

C14_LateWildcardAudits ==
    JustValidated =>
        SelectSeq(validated.result.errors, LAMBDA e : e.kind = "BadWildcardEndDate")
          = [i \in 1..Len(LateWildcardAudits) |->
                [kind |-> "BadWildcardEndDate", date |-> LateWildcardAudits[i].end,
                 max |-> YearFromToday]]

\* A store with wildcard audits ending a year from today, to the day, and
\* later: the later ones are reported, the first is not.
C14_Witness ==
    /\ JustValidated
    /\ \E i \in DOMAIN ValuesOf(store.audits.wildcard_audits) :
         ValuesOf(store.audits.wildcard_audits)[i].end = YearFromToday
    /\ ErrorCount("BadWildcardEndDate") = 2
    /\ Len(ValuesOf(store.audits.wildcard_audits)) = 3

\* C16: while commit runs on the Store that holds the lock, the lock stays
\* held; each document is empty (truncated) when its text is written; and
\* when the last write has succeeded the three files hold the serialization
\* of the Store's audits, config and imports, with the lock still held.  The
\* lock is given up only in the step in which commit returns.
C16_CommitRewrites ==
    /\ [](commit_pc.who = "store" =>
            /\ store.lock /\ store_lock = "held"
            /\ commit_pc.pc = "audits" =>
                 disk = [config |-> EmptyText, audits |-> EmptyText, imports |-> EmptyText]
            /\ commit_pc.pc = "config" =>
                 disk.config = EmptyText /\ disk.imports = EmptyText
            /\ commit_pc.pc = "imports" => disk.imports = EmptyText
            /\ commit_pc.pc = "ok" =>
                 /\ disk.audits = store_audits(store.audits)
                 /\ disk.config = store_config(store.config)
                 /\ disk.imports = store_imports(store.imports))
    /\ [][commit_pc.who = "store" /\ store_lock' # store_lock =>
            commit_pc.pc \in {"ok", "err"} /\ commit_pc'.who = "none"]_vars

\* commit has written all three documents of a Store that was changed in
\* memory: config.toml now differs from the text that was loaded.
C16_Witness ==
    /\ commit_pc = [who |-> "store", pc |-> "ok"]
    /\ store_lock = "held"
    /\ store.config # store.config_src.value
    /\ disk.config = store_config(store.config)
    /\ disk.config.value # store.config_src.value

\* C17: clone_for_suggest returns a Store that has, for every package, exactly
\* the original's exemptions with suggest = false, in their order, and the
\* original's other config, audits, imports and live imports; the original is
\* unchanged.
C17_CloneForSuggest ==
    [][clone = NoStore /\ clone' # NoStore =>
         /\ store' = store
         /\ DOMAIN clone'.config.exemptions = DOMAIN store.config.exemptions
         /\ \A pkg \in DOMAIN store.config.exemptions :
              LET orig == store.config.exemptions[pkg]
                  kept == clone'.config.exemptions[pkg]
                  keep == {i \in DOMAIN orig : ~orig[i].suggest}
              IN /\ Len(kept) = Cardinality(keep)
                 /\ \A j \in DOMAIN kept :
                      \E i \in keep :
                          /\ kept[j] = orig[i]
                          /\ Cardinality({h \in keep : h < i}) = j - 1
         /\ clone'.config.imports = store.config.imports
         /\ clone'.config.policy = store.config.policy
         /\ clone'.audits = store.audits
         /\ clone'.imports = store.imports
         /\ clone'.live_imports = store.live_imports]_vars

\* A clone of a Store with exemptions of both kinds for one package and only
\* suggest = true exemptions for another.
C17_Witness ==
    /\ clone # NoStore /\ store # NoStore
    /\ \E pkg \in DOMAIN store.config.exemptions :
         /\ \E i, j \in DOMAIN store.config.exemptions[pkg] :
              /\ store.config.exemptions[pkg][i].suggest
              /\ ~store.config.exemptions[pkg][j].suggest
         /\ Len(clone.config.exemptions[pkg]) < Len(store.config.exemptions[pkg])
         /\ clone.config.exemptions[pkg] # <<>>
    /\ \E pkg \in DOMAIN clone.config.exemptions :
         clone.config.exemptions[pkg] = <<>> /\ store.config.exemptions[pkg] # <<>>

\* C18: the Store returned by clone_for_suggest has no lock, and commit on
\* it returns without writing: no document changes and the store lock is
\* neither taken nor released.
C18_CloneNotCommitted ==
    /\ [](clone # NoStore => ~clone.lock)
    /\ [][commit_pc.who = "clone" \/ commit_pc'.who = "clone" =>
            /\ disk' = disk
            /\ store_lock' = store_lock
            /\ commit_pc'.pc \in {"ok", "none"}]_vars

\* commit has returned Ok on a clone whose config is not what config.toml holds.
C18_Witness ==
    /\ commit_pc = [who |-> "clone", pc |-> "ok"]
    /\ store_config(clone.config) # disk.config
    /\ disk.config # EmptyText
(***************************************************************************)
(* Cache::get_publishers (SpecPublishers)                                   *)
(***************************************************************************)
\* The call returned what was cached, without a request.
ReturnedCached == pub_call.pc = "done" /\ ~pub_call.http

\* The wanted versions that the entry the call found does not have.
MissingWanted ==
    LET published == pub_call.before.crates[pub_call.name]
    IN {v \in pub_call.versions :
          \A i \in DOMAIN published.versions : published.versions[i].num # v}

\* The entry the call found is less than a day old.
FetchedToday ==
    pub_call.now - pub_call.before.crates[pub_call.name].last_fetched < 24

\* No missing wanted version is a version of the crate in the registry index
\* (which may not have the crate).
MissingNotInIndex ==
    \A v \in MissingWanted :
        pub_call.index_crate = <<>> \/ v \notin pub_call.index_crate[1]

\* C19 as stated: the cached list is returned, without a request, when there
\* is an entry for the package and either every wanted version is in it or
\* it is less than a day old and no missing wanted version exists in the
\* registry index; in every other case the request is made.
C19_Original ==
    pub_call.pc # "idle" =>
        (ReturnedCached
            <=> /\ pub_call.name \in DOMAIN pub_call.before.crates
                /\ MissingWanted = {} \/ (FetchedToday /\ MissingNotInIndex))

\* C19 amended: in the second case the registry index must also have the
\* crate (query_package_from_index returns Some); when it does not, the
\* request is made.  What is returned without a request is the cached list,
\* and the cache is as it was.
C19_CachedOrRequest ==
    pub_call.pc # "idle" =>
        /\ ReturnedCached
             <=> /\ pub_call.name \in DOMAIN pub_call.before.crates
                 /\ \/ MissingWanted = {}
                    \/ /\ FetchedToday
                       /\ pub_call.index_crate # <<>>
                       /\ MissingNotInIndex
        /\ ReturnedCached =>
             /\ pub_call.result = Ok(pub_call.before.crates[pub_call.name].versions)
             /\ pub_cache = pub_call.before
        /\ ~ReturnedCached => pub_call.pc = "http" \/ pub_call.http

\* An entry fetched 23 hours ago lacks a wanted version that the index, which
\* has the crate, does not have either: the cached list is returned.
C19_Witness ==
    /\ ReturnedCached
    /\ MissingWanted # {}
    /\ FetchedToday
    /\ pub_call.index_crate # <<>> /\ pub_call.index_crate[1] # {}

\* C20: when the request and the parsing succeed, the package's entry is the
\* returned list with last_fetched = now, the other entries are as before,
\* users has the login and name of every returned publisher and is otherwise
\* as before, and the new list is returned; when either fails, the error is
\* returned and the publisher cache is as before.
C20_RequestOutcome ==
    pub_call.pc = "done" /\ pub_call.http =>
        IF pub_call.result.st = "ok"
        THEN LET entry == pub_cache.crates[pub_call.name]
                 api == pub_call.response
                 returned == {api[i].published_by[1] :
                                i \in {j \in DOMAIN api : api[j].published_by # <<>>}}
             IN /\ entry.last_fetched = pub_call.now
                /\ Len(entry.versions) = Len(api)
                /\ \A i \in DOMAIN api :
                     /\ entry.versions[i].num = api[i].num
                     /\ entry.versions[i].published_by
                          = IF api[i].published_by = <<>> THEN <<>>
                            ELSE <<api[i].published_by[1].id>>
                /\ pub_call.result.v = entry.versions
                /\ DOMAIN pub_cache.crates
                     = DOMAIN pub_call.before.crates \cup {pub_call.name}
                /\ \A k \in DOMAIN pub_call.before.crates \ {pub_call.name} :
                     pub_cache.crates[k] = pub_call.before.crates[k]
                /\ DOMAIN pub_cache.users
                     = DOMAIN pub_call.before.users \cup {u.id : u \in returned}
                /\ \A u \in returned :
                     pub_cache.users[u.id] = [login |-> u.login, name |-> u.name]
                /\ \A id \in DOMAIN pub_call.before.users \ {u.id : u \in returned} :
                     pub_cache.users[id] = pub_call.before.users[id]
        ELSE /\ pub_call.result.st = "err"
             /\ pub_cache = pub_call.before

\* The request returned the list that was cached: the entry has the same
\* versions and a new last_fetched.
C20_Witness ==
    /\ pub_call.pc = "done" /\ pub_call.http /\ pub_call.result.st = "ok"
    /\ pub_call.name \in DOMAIN pub_call.before.crates
    /\ pub_cache.crates[pub_call.name].versions
         = pub_call.before.crates[pub_call.name].versions
    /\ pub_cache.crates[pub_call.name].versions # <<>>
    /\ pub_call.before.crates[pub_call.name].last_fetched # pub_call.now
    /\ pub_cache.crates[pub_call.name].last_fetched = pub_call.now

(***************************************************************************)
(* Claims about import_publisher_versions (SpecResolver)                    *)
(***************************************************************************)
\* import_publisher_versions has returned Ok(()).
ResolverOk == resolver.pc = "done" /\ resolver.result.st = "ok"

\* The package has a third-party package of its name in the build graph.
InGraph(pkg) ==
    \E q \in resolver.metadata.packages : q.name = pkg /\ q.is_third_party

\* The union the resolver is to ask about: in-graph third-party versions,
\* from sides of delta audits (local and live-imported), exemption versions,
\* versions of the imports.lock publisher block.
WantedVersions(pkg) ==
    LET files == {resolver.audits_file}
                 \cup {resolver.before.audits[p] : p \in DOMAIN resolver.before.audits}
        deltas == UNION {{f.audits[pkg][i] : i \in DOMAIN f.audits[pkg]} :
                           f \in {g \in files : pkg \in DOMAIN g.audits}}
        exempted == IF pkg \in DOMAIN resolver.config_file.exemptions
                    THEN {e.version : e \in Range(resolver.config_file.exemptions[pkg])}
                    ELSE {}
        locked == IF pkg \in DOMAIN resolver.imports_lock.publisher
                  THEN {e.version : e \in Range(resolver.imports_lock.publisher[pkg])}
                  ELSE {}
    IN {q.version : q \in {m \in resolver.metadata.packages :
                             m.name = pkg /\ m.is_third_party}}
       \cup {a.from : a \in {d \in deltas : d.kind = "delta"}}
       \cup exempted \cup locked

\* The calls of get_publishers made for pkg.
CallsFor(pkg) == {i \in DOMAIN resolver.calls : resolver.calls[i].name = pkg}

\* What get_publishers returned for pkg (pushed to relevant_publishers).
ReturnedFor(pkg) ==
    LET i == CHOOSE j \in DOMAIN resolver.relevant_publishers :
                 resolver.relevant_publishers[j][1] = pkg
    IN resolver.relevant_publishers[i][2]

\* pkg was asked about once, with the wanted versions, and its entry of
\* live_imports.publisher is the list emitted from the answer.
AskedAndReplaced(pkg) ==
    /\ \E i \in CallsFor(pkg) :
         /\ CallsFor(pkg) = {i}
         /\ resolver.calls[i].versions = WantedVersions(pkg)
    /\ pkg \in DOMAIN resolver.live_imports.publisher
    /\ resolver.live_imports.publisher[pkg]
         = crates_publishers(ReturnedFor(pkg), resolver.users,
                             resolver.imports_lock, pkg)

\* C21 as stated: every relevant package is asked about with the wanted
\* version set and has its publisher list replaced.
C21_Original ==
    ResolverOk => \A pkg \in resolver.relevant_packages : AskedAndReplaced(pkg)

\* C21: after a successful run, every relevant package with a third-party
\* package of its name in the build graph was asked about exactly once, with
\* the union of its in-graph third-party versions, delta from sides,
\* exemption versions and imports.lock publisher versions, and its entry of
\* live_imports.publisher is the emitted list; a package without one is not
\* asked about and its entry is left as it was; a failed run leaves
\* live_imports as it was.
C21_AskedWhenInGraph ==
    /\ ResolverOk =>
         \A pkg \in {"libx", "liby"} :
            IF pkg \in resolver.relevant_packages /\ InGraph(pkg)
            THEN AskedAndReplaced(pkg)
            ELSE /\ CallsFor(pkg) = {}
                 /\ pkg \in DOMAIN resolver.live_imports.publisher
                      <=> pkg \in DOMAIN resolver.before.publisher
                 /\ pkg \in DOMAIN resolver.before.publisher
                      => resolver.live_imports.publisher[pkg]
                           = resolver.before.publisher[pkg]
    /\ resolver.pc = "done" /\ resolver.result.st = "err"
         => resolver.live_imports = resolver.before

\* A successful run that asked about libx with versions from all four
\* sources and replaced the publisher list it had before.
C21_Witness ==
    /\ ResolverOk
    /\ "libx" \in resolver.relevant_packages /\ InGraph("libx")
    /\ \E i \in CallsFor("libx") : resolver.calls[i].versions = {1, 2, 3, 4, 5}
    /\ "libx" \in DOMAIN resolver.before.publisher
    /\ resolver.live_imports.publisher["libx"] # resolver.before.publisher["libx"]
    /\ resolver.live_imports.publisher["libx"] # <<>>

\* The packages whose list has been inserted by the second loop.
Inserted ==
    {resolver.relevant_publishers[i][1] : i \in 1..resolver.inserted}

\* The versions of the imports.lock publisher block of pkg.
PriorVersions(pkg) ==
    IF pkg \in DOMAIN resolver.imports_lock.publisher
    THEN {e.version : e \in Range(resolver.imports_lock.publisher[pkg])}
    ELSE {}

\* C22: every emitted record is fresh iff its version is not in the prior
\* imports.lock publisher block of its package, and the emitted versions are
\* exactly the returned ones that have a publisher with cached user info.
C22_FreshIffNotLocked ==
    resolver.pc \in {"insert", "done"} =>
      \A pkg \in Inserted :
         LET list == resolver.live_imports.publisher[pkg]
             returned == ReturnedFor(pkg)
         IN /\ \A r \in Range(list) :
                 r.is_fresh_import <=> r.version \notin PriorVersions(pkg)
            /\ \A v \in Range(returned) :
                 (\E r \in Range(list) : r.version = v.num)
                   <=> /\ v.published_by # <<>>
                       /\ v.published_by[1] \in DOMAIN resolver.users

\* libx got a fresh and a non-fresh record and lost a version without
\* publisher; liby lost a version whose publisher the cache does not know.
C22_Witness ==
    /\ ResolverOk
    /\ {"libx", "liby"} \subseteq Inserted
    /\ \E r \in Range(resolver.live_imports.publisher["libx"]) : r.is_fresh_import
    /\ \E r \in Range(resolver.live_imports.publisher["libx"]) : ~r.is_fresh_import
    /\ \E v \in Range(ReturnedFor("libx")) : v.published_by = <<>>
    /\ \E v \in Range(ReturnedFor("liby")) :
         v.published_by # <<>> /\ v.published_by[1] \notin DOMAIN resolver.users
    /\ resolver.live_imports.publisher["liby"] = <<>>

(***************************************************************************)
(* Claims about the cache directory (SpecCacheDir)                          *)
(***************************************************************************)
\* gc has returned and none of its three parts met an I/O error.
GcCompleted ==
    /\ cache_call.pc = "idle"
    /\ cache_call.op = "gc"
    /\ cache_call.returned = "ok"

\* C23: after a gc without I/O error every child of the root is in the
\* allow-list, empty/ has no entry, every entry of src/ has its .crate in
\* cache/ and a .cargo-ok holding exactly ok, and every entry of cache/ ends
\* in .crate and is not older than max_package_age.
C23_GcLeaves ==
    GcCompleted =>
      /\ DOMAIN cache_root.children
           \subseteq {"diff-cache.toml", "command-history.json",
                      "publisher-cache.json", "empty", "src", "cache", ".vet-lock"}
      /\ cache_root.empty = {}
      /\ \A x \in DOMAIN cache_root.src :
           /\ (x \o <<"crate">>) \in DOMAIN cache_root.cache
           /\ cache_root.src[x].kind = "dir"
           /\ cache_root.src[x].cargo_ok = <<"ok">>
      /\ \A f \in DOMAIN cache_root.cache :
           /\ Len(f) >= 2 /\ f[Len(f)] = "crate"
           /\ LET age == cache_root.cache[f].age
              IN age = <<>> \/ age[1] <= cache_call.max_package_age

\* A gc that kept libx-1 and a.b with their archives and removed noext from
\* next to a.b.crate.
C23_Witness ==
    /\ GcCompleted
    /\ cache_call.max_package_age = 5
    /\ {<<"libx-1", "crate">>, <<"a", "b", "crate">>} \subseteq DOMAIN cache_root.cache
    /\ <<"noext">> \notin DOMAIN cache_root.cache
    /\ {<<"libx-1">>, <<"a", "b">>} \subseteq DOMAIN cache_root.src
    /\ <<"gone-1">> \notin DOMAIN cache_root.src

\* The Cache was dropped right after a clean that returned Ok(()).
DroppedAfterClean ==
    /\ cache_call.pc = "dropped"
    /\ cache_call.state.since_clean

DocumentPaths == {CacheDocuments[i].path : i \in DOMAIN CacheDocuments}

\* C24 as stated: after clean and drop the root holds .vet-lock only.
C24_Original ==
    DroppedAfterClean => DOMAIN cache_root.children = {".vet-lock"}

\* C24: a clean that returns Ok(()) leaves, until the next operation,
\* .vet-lock as the only child of the root and the three documents at their
\* defaults in memory; the drop that follows writes each of the three
\* documents again, as the serialization of the default value, so the root
\* then holds .vet-lock and the documents (but for those whose write
\* failed) and nothing else.
C24_CleanThenDrop ==
    /\ (cache_state.alive /\ cache_state.since_clean)
         => /\ DOMAIN cache_root.children = {".vet-lock"}
            /\ \A i \in DOMAIN CacheDocuments :
                 cache_state[CacheDocuments[i].field] = "default"
    /\ DroppedAfterClean =>
         /\ ".vet-lock" \in DOMAIN cache_root.children
         /\ DOMAIN cache_root.children \subseteq {".vet-lock"} \cup DocumentPaths
         /\ \A i \in DOMAIN CacheDocuments \ cache_call.failed :
              /\ CacheDocuments[i].path \in DOMAIN cache_root.children
              /\ cache_root.children[CacheDocuments[i].path] = [text |-> "default"]

\* A drop after clean of a Cache that had documents with contents: the three
\* files are back, with default contents.
C24_Witness ==
    /\ DroppedAfterClean
    /\ cache_call.failed = {}
    /\ DOMAIN cache_root.children = {".vet-lock"} \cup DocumentPaths

\* C25: dropping a non-mock Cache writes every document whose own
\* serialization and write do not fail, with the serialization of its value
\* in memory, whichever of the others fail; nothing else in the root changes
\* and the drop completes.  Dropping a mock Cache changes no file.
C25_WriteBackEach ==
    cache_call.pc = "dropped" =>
      /\ ~cache_state.alive
      /\ \A n \in (DOMAIN cache_call.before \cup DOMAIN cache_root.children)
                    \ DocumentPaths :
           /\ n \in DOMAIN cache_call.before \cap DOMAIN cache_root.children
           /\ cache_root.children[n] = cache_call.before[n]
      /\ IF cache_call.state.mock
         THEN cache_root.children = cache_call.before
         ELSE \A i \in DOMAIN CacheDocuments \ cache_call.failed :
                /\ CacheDocuments[i].path \in DOMAIN cache_root.children
                /\ cache_root.children[CacheDocuments[i].path]
                     = [text |-> cache_call.state[CacheDocuments[i].field]]

\* The write of diff-cache.toml failed half way and the two later documents
\* were written, one of them changed since it was loaded.
C25_Witness ==
    /\ cache_call.pc = "dropped"
    /\ ~cache_call.state.mock
    /\ cache_call.failed = {1} /\ cache_call.left = "part"
    /\ cache_call.state.publisher_cache = "v2"
    /\ cache_root.children["publisher-cache.json"] = [text |-> "v2"]
    /\ cache_root.children["command-history.json"] = [text |-> "v1"]
    /\ cache_root.children["diff-cache.toml"] = [text |-> "part"]

(***************************************************************************)
(* Claims about unpacking and about where fetch_package gets a registry    *)
(* version from (specification SpecUnpack).                                *)
(***************************************************************************)
UnpackedPackage == pkg_call.pc = "done" /\ pkg_call.unpacked = "package"

\* The positions of the opened archive's entries whose path does not start
\* with the target directory's basename, and the first of them.
Offending == {i \in DOMAIN pkg_call.file[1] : pkg_call.file[1][i].path[1] # "libx-1"}
FirstOffending == CHOOSE i \in Offending : \A j \in Offending : i <= j

\* The unpack failed before it came to the first offending entry.
FailedEarlier ==
    \/ pkg_call.fail.at = "remove_dir_all" /\ pkg_call.before.src # <<>>
    \/ pkg_call.fail.at = "create_dir"
    \/ pkg_call.fail.at = "iterate" /\ pkg_call.fail.i <= FirstOffending
    \/ pkg_call.fail.at = "entry" /\ pkg_call.fail.i < FirstOffending

\* The entries before the first offending one that the tar library writes.
WrittenBefore ==
    {i \in 1..(FirstOffending - 1) :
        /\ Len(pkg_call.file[1][i].path) > 1
        /\ \A c \in DOMAIN pkg_call.file[1][i].path : pkg_call.file[1][i].path[c] # ".."}

RejectedInvalidPaths ==
    pkg_call.result = Err([kind |-> "InvalidPaths",
                           entry_path |-> pkg_call.file[1][FirstOffending].path,
                           prefix |-> "libx-1"])

\* C26 as stated: an archive with an entry outside the target's basename is
\* rejected with InvalidPaths, nothing is written outside the target
\* directory, and the target directory is left without files (the claim is
\* read as about unpacks in which no other step failed first).
C26_Original ==
    (UnpackedPackage /\ Offending # {} /\ ~FailedEarlier)
        => /\ RejectedInvalidPaths
           /\ pkg_files.outside = pkg_call.before.outside
           /\ pkg_files.src # <<>>
           /\ DOMAIN pkg_files.src[1] = {}

\* C26: an archive with an entry whose path does not start with the target
\* directory's basename never unpacks successfully and nothing is written
\* outside the target directory; unless an earlier step failed, the result
\* is InvalidPaths naming the first such entry and the prefix, and the
\* target directory holds the entries that precede it in the archive (and
\* no marker written by create_unpack_lock).
C26_RejectsInvalidPaths ==
    (UnpackedPackage /\ Offending # {})
        => /\ pkg_call.result.st = "err"
           /\ pkg_files.outside = pkg_call.before.outside
           /\ ~FailedEarlier
                => /\ RejectedInvalidPaths
                   /\ pkg_files.src # <<>>
                   /\ DOMAIN pkg_files.src[1] =
                        {Tail(pkg_call.file[1][i].path) : i \in WrittenBefore}
                   /\ \A i \in WrittenBefore :
                        (\A j \in WrittenBefore :
                            pkg_call.file[1][j].path = pkg_call.file[1][i].path => j <= i)
                          => pkg_files.src[1][Tail(pkg_call.file[1][i].path)]
                               = pkg_call.file[1][i].bytes

C26_Witness ==
    /\ UnpackedPackage /\ Offending # {} /\ ~FailedEarlier
    /\ RejectedInvalidPaths
    /\ FirstOffending = 2
    /\ pkg_call.before.src # <<>>
    /\ <<"lib.rs">> \in DOMAIN pkg_files.src[1]
    /\ pkg_files.src[1][<<"lib.rs">>] = <<"a">>

\* C27 as stated: when an unpack made for fetch_package (of an archive or of
\* a checkout) succeeds, the .cargo-ok at the root of the unpacked directory
\* holds exactly the bytes ok, so the marker check accepts the directory.
C27_Original ==
    (pkg_call.pc = "done" /\ pkg_call.unpacked # "no" /\ pkg_call.result.st = "ok")
        => marker_is_ok(pkg_files.src)

\* A registry archive with its own, longer .cargo-ok was unpacked with
\* success, the marker is not the body, and the next run unpacked again.
C27_Witness ==
    /\ pkg_call.run = 2
    /\ pkg_call.pc = "done"
    /\ pkg_call.previous = Ok("src")
    /\ ~marker_is_ok(pkg_call.before.src)
    /\ pkg_call.before.src # <<>>
    /\ <<CARGO_OK_FILE>> \in DOMAIN pkg_call.before.src[1]
    /\ pkg_call.before.src[1][<<CARGO_OK_FILE>>] = <<"o", "k", "!">>
    /\ pkg_call.unpacked = "package"

CompleteEntries ==
    1..(Len(diff_call.entries) - (IF diff_call.cut > 0 THEN 1 ELSE 0))

\* The relative paths that are left out of the result.
SkippedPaths ==
    {<<"Cargo.lock">>, <<".cargo_vcs_info.json">>, <<".cargo-ok">>}
        \cup (IF diff_call.has_git_rev THEN {<<"Cargo.toml">>} ELSE {})

CountedEntries == {i \in CompleteEntries : diff_call.entries[i].rel_path \notin SkippedPaths}

RECURSIVE SumOver(_, _)
SumOver(S, field) ==
    IF S = {} THEN 0
    ELSE LET i == CHOOSE j \in S : TRUE
         IN (IF diff_call.entries[i].binary THEN 0 ELSE diff_call.entries[i][field])
            + SumOver(S \ {i}, field)

\* The (from, to) pairs of the counted files, in the order of the output.
RECURSIVE PairsFrom(_)
PairsFrom(i) ==
    IF i \notin CompleteEntries THEN <<>>
    ELSE LET printed == numstat_chunks(diff_call.entries[i], diff_call.version1,
                                       diff_call.version2)
         IN (IF i \in CountedEntries THEN <<<<printed[2], printed[3]>>>> ELSE <<>>)
            \o PairsFrom(i + 1)

\* C29: diffstat_package fails with BadStatus on an exit status other than
\* 0 and 1; on status 0 or 1 and an output in git's format it succeeds; and
\* whenever it succeeds files_changed is the number of files whose relative
\* path is not skipped (Cargo.lock, .cargo_vcs_info.json, .cargo-ok, and
\* Cargo.toml when has_git_rev), insertions and deletions are the sums of
\* their counts with binary files counting 0, and the returned list holds
\* exactly their (from, to) pairs in the order of the output.
C29_DiffstatCounts ==
    diff_call.pc = "done"
        => /\ diff_call.status \notin {0, 1}
                => diff_call.result = Err([kind |-> "BadStatus",
                                           status |-> diff_call.status])
           /\ (/\ diff_call.status \in {0, 1}
               /\ \A i \in CompleteEntries :
                    diff_call.entries[i].kind \in {"modified", "added", "removed"})
                => diff_call.result.st = "ok"
           /\ diff_call.result.st = "ok"
                => /\ diff_call.status \in {0, 1}
                   /\ diff_call.result.v.diffstat =
                        [files_changed |-> Cardinality(CountedEntries),
                         insertions |-> SumOver(CountedEntries, "insertions"),
                         deletions |-> SumOver(CountedEntries, "deletions")]
                   /\ diff_call.result.v.to_compare = PairsFrom(1)

C29_Witness ==
    /\ diff_call.pc = "done"
    /\ diff_call.has_git_rev
    /\ diff_call.result.st = "ok"
    /\ Len(diff_call.entries) = 2 /\ diff_call.cut = 0
    /\ diff_call.entries[1].rel_path = <<"Cargo.toml">>
    /\ diff_call.entries[2].binary
    /\ diff_call.result.v.diffstat =
         [files_changed |-> 1, insertions |-> 0, deletions |-> 0]
    /\ diff_call.result.v.to_compare =
         <<<<<<"src", "libx-1", "logo.png">>, <<"src", "libx-2", "logo.png">>>>>>

(***************************************************************************)
(* Claims about dropped fetch_package callers (specification SpecDrop).    *)
(***************************************************************************)
\* The pcs of a task that is running the initializer.
InitializerSteps == {"f_init", "f_download", "f_check", "f_unpack"}

\* C30 as stated: while another caller is pending on the key, a drop does
\* not cancel the initializer in progress and it is not started again: the
\* initializer starts again only after an error, or after a drop that left
\* no caller on the key.
C30_Original ==
    \A k \in Keys :
        fetch_runs[k] <= 1 + fetch_failed[k] + drops.abandoned[k]

\* Every run of the initializer has exactly one fate: it set the cell (at
\* most one does), it failed, it was dropped with its caller (with or
\* without other callers pending), or it is in progress in a caller that is
\* alive; and every caller that returns Ok returns the cell's value.
RunsAccountedFor ==
    /\ \A k \in Keys :
         /\ fetch_runs[k] =
                fetch_failed[k] + drops.cancelled[k] + drops.abandoned[k]
                + (IF fetched_packages[k].value # Unset THEN 1 ELSE 0)
                + (IF fetched_packages[k].runner # NoTask THEN 1 ELSE 0)
         /\ fetched_packages[k].runner # NoTask
              => /\ tasks[fetched_packages[k].runner].key = k
                 /\ tasks[fetched_packages[k].runner].pc \in InitializerSteps
                 /\ fetched_packages[k].value = Unset
    /\ \A t \in Tasks :
         /\ tasks[t].pc \in InitializerSteps
              => fetched_packages[tasks[t].key].runner = t
         /\ (tasks[t].pc = "done" /\ tasks[t].res.st = "ok")
              => fetched_packages[tasks[t].key].value = tasks[t].res.v

\* C30: a drop of the caller that runs the initializer cancels that run and
\* frees the permit, so that the next caller, pending or later, starts the
\* initializer again (every started run is accounted for as set, failed,
\* dropped or in progress in a live caller); a drop of a caller that only
\* waits changes nothing for the others; and every caller that is not
\* dropped gets a result.
C30_DropRerunsInitializer ==
    /\ []RunsAccountedFor
    /\ \A t \in Tasks :
         (tasks[t].pc \in FetchAwaits \cup {"f_cell"})
             ~> (tasks[t].pc \in {"done", "dropped"})

\* A caller was dropped while it ran the initializer and another was
\* pending; that other caller ran the initializer again and returned Ok.
C30_Witness ==
    \E k \in Keys, t \in Tasks, u \in Tasks :
        /\ drops.cancelled[k] = 1
        /\ fetch_runs[k] = 2
        /\ fetch_failed[k] = 0
        /\ tasks[t].pc = "dropped" /\ tasks[t].key = k
        /\ tasks[u].pc = "done" /\ tasks[u].key = k /\ tasks[u].res.st = "ok"
        /\ fetched_packages[k].value = tasks[u].res.v

(***************************************************************************)
(* Claims about foreign_audit_file_to_local (specification SpecForeign).   *)
(***************************************************************************)
ForeignDone == foreign.pc = "done"

\* The criteria of the foreign document that pass validation, and the names
\* an entry may refer to.
SurvivingCriteria == {n \in DOMAIN foreign.file.criteria : foreign.file.criteria[n].valid}
KnownForeignCriteria == SurvivingCriteria \cup ReservedNames

\* The positions of a package's entries that pass validation and name a
\* known criterion.
SurvivingEntries(map, package) ==
    {i \in DOMAIN map[package] :
        /\ map[package][i].valid
        /\ \E j \in DOMAIN map[package][i].criteria :
             map[package][i].criteria[j] \in KnownForeignCriteria}

\* The local map holds, for every package with a surviving entry, exactly
\* the surviving entries in their order, each with known criteria only, and
\* no other package.
ExactlySurvivors(map, local) ==
    /\ DOMAIN local = {p \in DOMAIN map : SurvivingEntries(map, p) # {}}
    /\ \A p \in DOMAIN local :
         /\ {local[p][i].id : i \in DOMAIN local[p]} = SurvivingEntries(map, p)
         /\ Len(local[p]) = Cardinality(SurvivingEntries(map, p))
         /\ \A i \in DOMAIN local[p], j \in DOMAIN local[p] :
                i < j => local[p][i].id < local[p][j].id
         /\ \A i \in DOMAIN local[p] :
              /\ local[p][i].criteria # <<>>
              /\ Range(local[p][i].criteria) =
                    Range(map[p][local[p][i].id].criteria) \cap KnownForeignCriteria

HasDropped(map, package) ==
    /\ package \in DOMAIN map
    /\ DOMAIN map[package] # SurvivingEntries(map, package)

\* C31: foreign_audit_file_to_local keeps exactly the criteria that pass
\* validation and exactly the audits and wildcard audits that pass it and
\* name a known criterion; what survives refers to known criteria only
\* (surviving or reserved names), in criteria and in implies; a package left
\* without entries is omitted; the dropped criteria and the packages with a
\* dropped entry are the ones reported.
C31_ForeignToLocal ==
    ForeignDone
        => LET result == foreign.result[1] IN
           /\ DOMAIN result.audit_file.criteria = SurvivingCriteria
           /\ \A n \in SurvivingCriteria :
                Range(result.audit_file.criteria[n].implies) =
                    Range(foreign.file.criteria[n].implies) \cap KnownForeignCriteria
           /\ ExactlySurvivors(foreign.file.audits, result.audit_file.audits)
           /\ ExactlySurvivors(foreign.file.wildcard_audits,
                               result.audit_file.wildcard_audits)
           /\ result.ignored_criteria = DOMAIN foreign.file.criteria \ SurvivingCriteria
           /\ Range(result.ignored_audits) =
                {p \in Range(ForeignPackages) :
                    \/ HasDropped(foreign.file.audits, p)
                    \/ HasDropped(foreign.file.wildcard_audits, p)}

C31_Witness ==
    /\ ForeignDone
    /\ foreign.result[1].ignored_criteria = {"fuzzed"}
    /\ "reviewed" \in SurvivingCriteria
    /\ foreign.result[1].audit_file.criteria["reviewed"].implies = <<"reviewed", SAFE_TO_RUN>>
    /\ foreign.result[1].ignored_audits = <<"libx", "liby">>
    /\ DOMAIN foreign.result[1].audit_file.audits = {"libx"}
    /\ foreign.result[1].audit_file.audits["libx"] =
         <<[id |-> 2, criteria |-> <<"reviewed", SAFE_TO_DEPLOY>>]>>
    /\ DOMAIN foreign.result[1].audit_file.wildcard_audits = {}
    /\ "libx" \in DOMAIN foreign.file.wildcard_audits

(***************************************************************************)
(* Further properties of the reconciliation (specification SpecRecon)      *)
(***************************************************************************)
\* The criteria table of the new file is the fetched one cut down to the
\* names of the criteria map, with the fetched descriptions.
CarriesFetchedDescriptions(criteria_map, fetched_criteria, new_criteria) ==
    \A n \in CustomNameSet :
        IF fetched_criteria[n].present /\ criteria_map[n].mapped
        THEN /\ new_criteria[n].present
             /\ new_criteria[n].description = fetched_criteria[n].description
        ELSE ~new_criteria[n].present

\* The entries of the new list that are matched, one to one, with an
\* equivalent entry of the prior list are not fresh.
MatchedStayNonFresh(prior_list, new_list) ==
    \A i \in 1..Len(new_list) :
        RankAmongSame(new_list, i) <= CountSame(prior_list, new_list[i])
            => ~new_list[i].is_fresh_import

\* C32: with allow_criteria_changes = true a run never fails with
\* CriteriaChange; the new imports-lock carries the fetched descriptions of
\* the retained criteria, and an entry that the prior lock already had for
\* the peer and package is not fresh, whether or not a description changed.
C32_AllowedChanges ==
    (allow_criteria_changes /\ result1.st # "none") =>
        /\ result1.st # "err"
        /\ result1.st = "ok" =>
             \A k \in 1..Len(fetched_audits) :
                LET p == fetched_audits[k].name
                    new == result1.lock.audits[p]
                    prior == imports_lock.audits[p]
                IN  /\ CarriesFetchedDescriptions(config_file[p].criteria_map,
                                                  fetched_audits[k].file.criteria,
                                                  new.criteria)
                    /\ prior.present =>
                         \A pkg \in Packages :
                            /\ MatchedStayNonFresh(prior.audits[pkg], new.audits[pkg])
                            /\ MatchedStayNonFresh(prior.wildcard_audits[pkg],
                                                   new.wildcard_audits[pkg])

\* The peer changed the description of "fuzzed"; the run succeeds, the new
\* lock has the new description, and an audit published under "fuzzed" that
\* the prior lock already had is not fresh.
C32_Witness ==
    /\ allow_criteria_changes
    /\ result1.st = "ok"
    /\ <<FirstPeer.name, "fuzzed">> \in ChangedPairs
    /\ FirstNew.criteria["fuzzed"].description
         # imports_lock.audits[FirstPeer.name].criteria["fuzzed"].description
    /\ \E pkg \in Packages : \E i \in 1..Len(FirstNew.audits[pkg]) :
         /\ "fuzzed" \in Range(FirstPeer.file.audits[pkg][i].criteria)
         /\ CountSame(imports_lock.audits[FirstPeer.name].audits[pkg],
                      FirstNew.audits[pkg][i]) > 0
         /\ ~FirstNew.audits[pkg][i].is_fresh_import

\* C33 as stated: the publisher map of the imports-lock returned by
\* process_imported_audits equals the publisher map of the imports-lock it
\* was given.
C33_Original ==
    result1.st = "ok" => result1.lock.publisher = imports_lock.publisher

\* C33 amended: the imports-lock returned by process_imported_audits has an
\* empty publisher map, whatever the publisher map of the given lock.
C33_PublisherEmpty ==
    /\ result1.st = "ok" => result1.lock.publisher = {}
    /\ result2.st = "ok" => result2.lock.publisher = {}

\* A successful run on an imports-lock that had publisher records.
C33_Witness ==
    /\ result1.st = "ok"
    /\ imports_lock.publisher # {}
    /\ result1.lock.publisher = {}

PeerNames(lock) == {p \in PeerSet : lock.audits[p].present}
FetchedPeers == {fetched_audits[k].name : k \in 1..Len(fetched_audits)}
ConfiguredPeers == {p \in PeerSet : config_file[p].present}

\* C39: the peers of the imports-lock of a successful run are the fetched
\* peers, which are the imports of the config: the key sets compared by the
\* drift check are equal for the result.
C39_PeerNames ==
    /\ FetchedPeers = ConfiguredPeers
    /\ result1.st = "ok" =>
         PeerNames(result1.lock) = FetchedPeers
    /\ result2.st = "ok" =>
         PeerNames(result2.lock) = ConfiguredPeers

\* The prior lock has the second peer only and the config the first peer
\* only: one is dropped, the other added.
C39_Witness ==
    /\ result1.st = "ok"
    /\ PeerNames(imports_lock) = {Peers[2]}
    /\ ConfiguredPeers = {Peers[1]}
    /\ PeerNames(result1.lock) = {Peers[1]}

\* The new list has an entry per fetched entry, and an entry whose criteria
\* resolve to nothing has the empty criteria list.
KeptPerEntry(criteria_map, foreign_list, new_list) ==
    /\ Len(new_list) = Len(foreign_list)
    /\ \A i \in 1..Len(foreign_list) :
          UNION {Resolved(criteria_map, f) : f \in Range(foreign_list[i].criteria)} = {}
              => new_list[i].criteria = <<>>

\* C40: for every fetched peer and every package outside its exclude set
\* the imports-lock of a successful run has as many audits and wildcard
\* audits as the fetched document, and an entry whose criteria resolve to
\* no local criterion is kept with an empty criteria list.
C40_NoAuditRemoved ==
    result1.st = "ok" =>
        \A k \in 1..Len(fetched_audits) :
            LET p == fetched_audits[k].name
                new == result1.lock.audits[p]
            IN  \A pkg \in Packages \ config_file[p].exclude :
                   /\ KeptPerEntry(config_file[p].criteria_map,
                                   fetched_audits[k].file.audits[pkg], new.audits[pkg])
                   /\ KeptPerEntry(config_file[p].criteria_map,
                                   fetched_audits[k].file.wildcard_audits[pkg],
                                   new.wildcard_audits[pkg])

\* safe-to-run is mapped to no criterion: an audit and a wildcard audit
\* published under it are in the new lock with no criteria.
C40_Witness ==
    /\ result1.st = "ok"
    /\ \E pkg \in Packages \ config_file[FirstPeer.name].exclude :
         /\ \E i \in 1..Len(FirstNew.audits[pkg]) :
              /\ FirstPeer.file.audits[pkg][i].criteria = <<SAFE_TO_RUN>>
              /\ FirstNew.audits[pkg][i].criteria = <<>>
         /\ \E i \in 1..Len(FirstNew.wildcard_audits[pkg]) :
              /\ FirstPeer.file.wildcard_audits[pkg][i].criteria = <<SAFE_TO_RUN>>
              /\ FirstNew.wildcard_audits[pkg][i].criteria = <<>>

(***************************************************************************)
(* Properties of loading the diff-cache (specification SpecCacheLoad)      *)
(***************************************************************************)
OnDiskCache == cache_load.pc # "start" /\ ~cache_load.mock /\ cache_load.root_ok
UnknownTag(document) == document.kind = "toml" /\ document.version # DiffCacheTag

\* C34 as stated: when Cache::acquire finds no diff-cache.toml the cache
\* starts with an empty V2 diff-cache; when it finds a diff-cache.toml with
\* a version tag other than V2, acquire fails with a load error and the
\* document stays on disk as it was.
C34_Original ==
    OnDiskCache =>
        /\ cache_load.before.kind = "absent" =>
              /\ cache_load.result.st = "ok"
              /\ cache_load.loaded = <<DefaultDiffCache>>
        /\ (UnknownTag(cache_load.before) /\ cache_load.open_ok) =>
              /\ cache_load.result.st = "err"
              /\ cache_load.disk = cache_load.before

\* diff-cache.toml was tagged V3 and had diffs: acquire succeeded with an
\* empty diff-cache, and the drop wrote a V2 document over it.
C34_Witness ==
    /\ cache_load.pc = "dropped"
    /\ cache_load.before.version = "V3"
    /\ cache_load.before.diffs # {}
    /\ cache_load.open_ok
    /\ cache_load.result.st = "ok"
    /\ cache_load.loaded = <<DefaultDiffCache>>
    /\ cache_load.disk.kind = "toml"
    /\ cache_load.disk.version = DiffCacheTag
    /\ cache_load.before.diffs \cap cache_load.disk.diffs = {}

(***************************************************************************)
(* The marker after a failed unpack (specification SpecUnpack)             *)
(***************************************************************************)
FailedUnpack ==
    /\ pkg_call.pc = "done"
    /\ pkg_call.unpacked # "no"
    /\ pkg_call.result.st = "err"

\* C35 as stated: when unpack_package or unpack_checkout fails, the target
\* directory has no valid .cargo-ok marker afterwards, and the next run
\* does not return it without unpacking.
C35_Original ==
    /\ FailedUnpack => ~marker_is_ok(pkg_files.src)
    /\ (pkg_call.pc = "done" /\ pkg_call.run = 2 /\ pkg_call.previous.st = "err"
           /\ pkg_call.before.src # <<>> /\ ~marker_is_ok(pkg_call.before.src))
         => (pkg_call.result = Ok("src") => pkg_call.unpacked # "no")

\* The archive's first entry is its own .cargo-ok reading "ok", its second
\* entry has an invalid path: unpack_package failed with InvalidPaths, and
\* the second run returns the directory, which holds the marker only.
C35_Witness ==
    /\ pkg_call.pc = "done"
    /\ pkg_call.run = 2
    /\ pkg_call.previous.st = "err"
    /\ pkg_call.previous.v.kind = "InvalidPaths"
    /\ pkg_call.result = Ok("src")
    /\ pkg_call.unpacked = "no"
    /\ DOMAIN pkg_files.src[1] = {<<CARGO_OK_FILE>>}

(***************************************************************************)
(* The path fetch_package returns (specification SpecRefetch)              *)
(***************************************************************************)
\* C36 as stated: every path returned by a successful fetch_package call is,
\* when the call returns, an existing directory with a valid .cargo-ok
\* marker, also when gc or clean ran on the Cache before the call.
C36_Original ==
    (refetch.calls > 0 /\ refetch.result.st = "ok") => refetch.valid

\* The key was fetched, clean then removed src/, and the next fetch_package
\* call returned the path of the once-cell: the directory does not exist.
C36_Witness ==
    /\ refetch.calls >= 2
    /\ cache_call = [pc |-> "idle", op |-> "clean", returned |-> "ok"]
    /\ refetch.removed
    /\ refetch.result = Ok(LibxPath)
    /\ ~refetch.valid
    /\ "src" \notin DOMAIN cache_root.children

\* The same after gc: the archive had aged past max_package_age, gc removed
\* it and the directory, and the next call returned the directory's path.
C36_AfterGc ==
    /\ refetch.calls >= 2
    /\ cache_call.pc = "idle" /\ cache_call.op = "gc"
    /\ refetch.removed
    /\ refetch.result = Ok(LibxPath)
    /\ ~refetch.valid
    /\ LibxSrc \notin DOMAIN cache_root.src

(***************************************************************************)
(* A commit that fails part-way (specification SpecStore)                  *)
(***************************************************************************)
\* Until the Store that holds the lock commits, the three files hold the
\* texts the Store was loaded from.
PreCommit == [config |-> store.config_src, audits |-> store.audits_src,
              imports |-> store.imports_src]

\* The documents whose rewriting has not come to its write when the step at
\* pc fails: every document for the opening steps (the one being opened
\* included, a failed open changes nothing), and the documents after the
\* one that is being written.
NotYetRewritten(pc) ==
    IF pc \in {"write_audits", "write_config", "write_imports"}
    THEN {"audits", "config", "imports"}
            \ (IF pc = "write_config" THEN {"audits"}
               ELSE IF pc = "write_imports" THEN {"audits", "config"} ELSE {})
    ELSE IF pc = "audits" THEN {"config", "imports"}
    ELSE IF pc = "config" THEN {"imports"}
    ELSE {}

\* C37 as stated: when a step of commit fails, every document that had not
\* yet been rewritten still has its pre-commit content; none is left
\* truncated or empty because of the failure on another document.
C37_Original ==
    [][(commit_pc.who = "store" /\ commit_pc'.pc = "err")
          => \A doc \in NotYetRewritten(commit_pc.pc) : disk'[doc] = PreCommit[doc]]_vars

\* Writing audits.toml failed after a part of the text: config.toml and
\* imports.lock, which were not empty before the commit, are empty.
C37_Witness ==
    /\ commit_pc = [who |-> "store", pc |-> "err"]
    /\ disk.audits.layout = "part"
    /\ disk.config = EmptyText
    /\ disk.imports = EmptyText
    /\ PreCommit.config # EmptyText
    /\ PreCommit.imports # EmptyText

\* Before the commit of the locked Store begins, the files are as loaded.
C37_LoadedTexts ==
    (store # NoStore /\ store.lock /\ commit_pc.who # "store") => disk = PreCommit

\* ---------------------------------------------------------------------
\* Lock order of Store::acquire and Store::ensure_publisher_versions.

\* Where a process is between Cache::acquire(cfg)? and the drop of that Cache.
CacheSections == {"imports_cache", "import_pub", "ensure_cache", "ensure_pub"}

\* Where a process is inside Store::acquire.
AcquireSections == {"acquire_lock", "load", "fetch", "imports_cache", "import_pub", "validate"}

\* p waits in StoreLock::new for the lock another process holds.
WaitsForStore(p) == procs[p].pc = "acquire_lock" /\ config_lock \notin {NoProc, p}

\* p waits in Cache::acquire for the lock another process holds.
WaitsForCache(p) == procs[p].pc \in {"imports_cache", "ensure_cache"} /\ vet_lock \notin {NoProc, p}

\* Two processes each wait for the lock the other holds.
CircularWait == \E p, q \in Procs : p # q /\ WaitsForStore(p) /\ config_lock = q /\ WaitsForCache(q) /\ vet_lock = p

\* Every Cache a process owns was made inside one of the two operations.
OnlyTheseOperations == \A p \in Procs : procs[p].cache = "locked" => procs[p].pc \in {"import_pub", "ensure_pub"}

\* The call leaves its cache section without the cache lock, unless the
\* process held it before the call and the call never got a Cache.
ReleasesCacheLock(p) == (procs[p].pc \in CacheSections /\ procs'[p].pc \notin CacheSections) => (vet_lock' # p \/ (procs[p].pc \in {"imports_cache", "ensure_cache"} /\ vet_lock = p))

\* A failed Store::acquire leaves the store lock released.
FailedAcquireUnlocks(p) == (procs[p].pc \in AcquireSections /\ procs'[p].pc = "idle" /\ ~procs'[p].store) => config_lock' # p

\* The rest of the claim: Store::acquire is inside the store lock when it
\* asks for the Cache, both operations release the cache lock on return, a
\* failed acquire releases the store lock, and there is no circular wait.
C38_Rest ==
    /\ [](\A p \in Procs : procs[p].pc \in {"imports_cache", "import_pub"} => config_lock = p)
    /\ [](OnlyTheseOperations => ~CircularWait)
    /\ [][\A p \in Procs : ReleasesCacheLock(p) /\ FailedAcquireUnlocks(p)]_vars

C38_BothLocks ==
    \E p, q \in Procs :
        /\ p # q
        /\ procs[p].pc = "import_pub" /\ config_lock = p /\ vet_lock = p
        /\ WaitsForStore(q)
        /\ OnlyTheseOperations
====
